---- MODULE Spec2Model ----
(***************************************************************************)
(* A model of the client side of PyJavaBridge                              *)
(* (src/main/resources/python/bridge.py): the BridgeConnection request     *)
(* registry with its two calling conventions, the reader thread, the       *)
(* cooperative scheduler's callback queue, the batch manager, the handle   *)
(* release queue and the event dispatcher.                                 *)
(*                                                                         *)
(* Threads: the reader thread (_reader), the scheduler's thread "main"     *)
(* (runs call, wait, the batch scopes, _handle_message, _dispatch_event    *)
(* and may itself issue call_sync) and a plain thread "worker" issuing     *)
(* call_sync.  The host is the environment: it answers requests it has     *)
(* seen on the wire, pushes events, may send bytes that do not decode and  *)
(* may close the stream.                                                   *)
(***************************************************************************)
EXTENDS Integers, Sequences, FiniteSets, TLC

\* ----------------------------------------------------------------- bounds
\* Request ids the model lets the client allocate.
MaxId == 2
\* Batch scopes entered in a run.
MaxScopes == 3
\* Handles the application may discard (must exceed ReleaseThreshold).
MaxHandles == 66
\* Handlers registered for the event name, and event frames pushed.
MaxHandlers == 2
MaxEvents == 2
\* How many frames each sender writes.
MaxSends == 2
\* Operations the script performs on its proxy, its construction included.
MaxOps == 3
\* Handle-bound proxies the script receives one after the other.
MaxProxies == 3
\* Activations of _queue_release, _flush_releases and send one thread has on
\* its stack at a time.
MaxNesting == 2
\* Frames read or posted and not yet handled, above which the host sends no
\* unrequested frame.
MaxInFlight == 1

\* ------------------------------------------------------ program constants
\* _queue_release: "if len(self._release_queue) >= 64".
ReleaseThreshold == 64

Ids == 1..MaxId
Threads == {"main", "worker"}
\* The threads that call send: the two above and the one a finalizer runs on.
Senders == {"main", "worker", "finalizer"}
Modes == {"frame", "atomic"}
EventNames == {"chat", "hurt"}
\* The names handlers are registered under: the host's events and the
\* synthetic shutdown event.
HandlerNames == EventNames \cup {"shutdown"}
\* What a registered handler does when it is called with the payload: it is
\* a plain function or a coroutine function, and it returns None, a str, a
\* bool or a number, or raises.
HandlerKinds ==
    {[async |-> FALSE, res |-> "none"], [async |-> FALSE, res |-> "text"],
     [async |-> FALSE, res |-> "bool"], [async |-> FALSE, res |-> "exc"],
     [async |-> TRUE, res |-> "num"], [async |-> TRUE, res |-> "exc"]}

VARIABLES
    id_counter,       \* _id_counter: the value the next _next_id() returns
    pending,          \* keys of _pending (async registry)
    pending_sync,     \* keys of _pending_sync (blocking registry)
    future,           \* the asyncio.Future created for each async request id
    syncwait,         \* the _SyncWait created for each blocking request id
    pc,               \* per thread: position inside call_sync
    cur,              \* per thread: request_id local of its call_sync
    alloc,            \* history: <<id, convention>> in allocation order; for
                      \* a call also the number of scopes open when issued
    wire,             \* frames written by send(), in write order
    inbox,            \* frames written by the host and not yet read
    eof,              \* the host has closed the stream
    answered,         \* ids the host has answered
    garbage,          \* the host has sent bytes that do not decode
    reader,           \* position of the reader thread inside _reader
    ended,            \* history: how the while loop was left (eof, error)
    snap,             \* _reader finally: list(self._pending_sync.values())
    loopq,            \* callbacks posted with call_soon_threadsafe
    batch_stack,      \* _batch_stack
    batch_messages,   \* _batch_messages
    batch_futures,    \* _batch_futures
    exits,            \* history: one record per _BatchContext.__aexit__
    release_queue,    \* _release_queue
    next_handle,      \* the next handle a discarded proxy will carry
    handlers,         \* _handlers[event name]: the registered handlers
    events,           \* event frames pushed so far
    tasks,            \* _dispatch_event tasks created and not yet finished
    log,              \* history: the dispatches that have run their finally
    flushes,          \* flush() coroutines: the futures each one gathers
    lock,             \* _lock: the thread inside send's with block, or "none"
    stream,           \* the chunks written to _file, in write order
    spc,              \* per sender: position inside send
    boot,             \* position inside BridgeConnection.__init__ / _bootstrap
    proxy,            \* the proxy object the script holds, or NoProxy
    ops,              \* history: the last proxy-level operation, its
                      \* arguments and what it returned
    co,               \* history: which coroutine opened each open scope,
                      \* each coroutine's own open scopes, the calls issued
                      \* outside any scope of the issuer, the scopes left
    release_lock,     \* _release_lock: the thread that holds it, or "none"
    frames,           \* per thread: its activations of _queue_release,
                      \* _flush_releases and send, innermost last
    appended          \* history: the handles appended to _release_queue

callVars == <<id_counter, pending, pending_sync, future, syncwait, pc, cur,
              alloc>>
netVars == <<wire, inbox, eof, answered, garbage>>
readerVars == <<reader, ended, snap, loopq>>
batchVars == <<batch_stack, batch_messages, batch_futures, exits>>
releaseVars == <<release_queue, next_handle>>
eventVars == <<handlers, events, tasks>>
sendVars == <<lock, stream, spc>>
histVars == <<log, flushes>>
apiVars == <<boot, proxy, ops>>
coVars == <<co>>
lockVars == <<release_lock, frames, appended>>
vars == <<callVars, netVars, readerVars, batchVars, releaseVars, eventVars,
          sendVars, histVars, apiVars, coVars, lockVars>>

\* ---------------------------------------------------------------- helpers
Range(s) == {s[i] : i \in 1..Len(s)}

\* A pending call's slot: an asyncio.Future, or a _SyncWait (event, result,
\* error).  st: none (never created), pending, result, error.  src is the id
\* of the frame whose payload was stored (0: no frame), err the exception
\* class, n the number of times the slot was resolved.
NoSlot == [st |-> "none", src |-> 0, err |-> "none", n |-> 0]
NewSlot == [st |-> "pending", src |-> 0, err |-> "none", n |-> 0]
Resolved(slot, st, src, err) ==
    [st |-> st, src |-> src, err |-> err, n |-> slot.n + 1]

\* _next_id: next(self._id_counter) returns the counter and advances it.
NextIdStuck(c) == c
NextId(c) == c + 1

\* send: the frame is written under self._lock, whole, after what is there.
Send(w, m) == Append(w, m)

\* The exception the reader stores into a parked wait for an error frame
\* (_reader 2297-2301).
SyncError(m) == IF m.code = "ENTITY_GONE" THEN "EntityGone" ELSE "BridgeError"

\* The exception _handle_message sets on a future for an error frame
\* (2329-2333).
AsyncErrorPlain(m) == "BridgeError"
AsyncError(m) == IF m.code = "ENTITY_GONE" THEN "EntityGone" ELSE "BridgeError"

\* The call message both conventions build (call 2138-2154, call_sync
\* 2166-2182).
CallMessage(id) == [type |-> "call", id |-> id]

\* ------------------------------------------------------------------- Init
\* No proxy object yet, no proxy operation yet.
NoProxy == [cls |-> "None"]
NoOp == [n |-> 0, op |-> "none", rest |-> <<>>]

\* The coroutines of the script that use batch scopes, and their record
\* before any of them has run.
Coroutines == {"A", "B"}
NoScopes ==
    [depth |-> [c \in Coroutines |-> 0], owners |-> <<>>, free |-> {},
     left |-> <<>>]

\* Everything BridgeConnection.__init__ creates empty (2094-2113).
Fresh ==
    /\ id_counter = 1
    /\ pending = {}
    /\ pending_sync = {}
    /\ future = [i \in Ids |-> NoSlot]
    /\ syncwait = [i \in Ids |-> NoSlot]
    /\ pc = [t \in Threads |-> "idle"]
    /\ cur = [t \in Threads |-> 0]
    /\ alloc = <<>>
    /\ inbox = <<>>
    /\ eof = FALSE
    /\ answered = {}
    /\ garbage = FALSE
    /\ ended = "no"
    /\ snap = {}
    /\ loopq = <<>>
    /\ batch_stack = <<>>
    /\ batch_messages = <<>>
    /\ batch_futures = <<>>
    /\ exits = <<>>
    /\ release_queue = <<>>
    /\ next_handle = 1
    /\ handlers = [e \in HandlerNames |-> <<>>]
    /\ events = 0
    /\ tasks = <<>>
    /\ log = <<>>
    /\ flushes = <<>>
    /\ lock = "none"
    /\ stream = <<>>
    /\ spc = [s \in Senders |-> "idle"]
    /\ proxy = NoProxy
    /\ ops = NoOp
    /\ co = NoScopes
    /\ release_lock = "none"
    /\ frames = [t \in Threads |-> <<>>]
    /\ appended = <<>>

\* The state after construction: the auth frame is on the wire and the
\* reader thread runs.
Init ==
    /\ Fresh
    /\ wire = <<[type |-> "auth"]>>
    /\ reader = "run"
    /\ boot = "started"

\* ------------------------------------------------- handle release queue
\* _flush_releases_locked: nothing when the queue is empty, otherwise one
\* release frame with a copy of the whole queue (the queue is then cleared).
FlushedWire(q, w) ==
    IF q = <<>> THEN w ELSE Send(w, [type |-> "release", handles |-> q])

\* --------------------------------------------------- the calling surface
\* The scheduler's thread is free to run callbacks and coroutines only
\* while it is not inside a call_sync of its own.
LoopFree == pc["main"] = "idle"

\* call (2155): if self._batch_stack.
InBatchNested(stack) == Len(stack) > 1
InBatch(stack) == stack # <<>>

\* call(): _flush_releases, _next_id, create_future, register in _pending,
\* then buffer (a batch scope is open) or send.
Call ==
    /\ LoopFree
    /\ id_counter <= MaxId
    /\ LET id == id_counter
           w1 == FlushedWire(release_queue, wire)
       IN  /\ release_queue' = <<>>
           /\ id_counter' = NextId(id_counter)
           /\ future' = [future EXCEPT ![id] = NewSlot]
           /\ pending' = pending \cup {id}
           /\ alloc' = Append(alloc, <<id, "call", Len(batch_stack)>>)
           /\ IF InBatch(batch_stack)
              THEN /\ batch_messages' = Append(batch_messages, CallMessage(id))
                   /\ batch_futures' = Append(batch_futures, id)
                   /\ wire' = w1
              ELSE /\ wire' = Send(w1, CallMessage(id))
                   /\ UNCHANGED <<batch_messages, batch_futures>>
    /\ UNCHANGED <<pending_sync, syncwait, pc, cur>>
    /\ UNCHANGED <<inbox, eof, answered, garbage>>
    /\ UNCHANGED <<batch_stack, exits, next_handle>>
    /\ UNCHANGED <<readerVars, eventVars>>
    /\ UNCHANGED <<sendVars, histVars>>
    /\ UNCHANGED <<apiVars, coVars, lockVars>>

\* wait(): _next_id, create_future, register in _pending, send a wait frame.
Wait ==
    /\ LoopFree
    /\ id_counter <= MaxId
    /\ LET id == id_counter
       IN  /\ id_counter' = NextId(id_counter)
           /\ future' = [future EXCEPT ![id] = NewSlot]
           /\ pending' = pending \cup {id}
           /\ alloc' = Append(alloc, <<id, "wait">>)
           /\ wire' = Send(wire, [type |-> "wait", id |-> id])
    /\ UNCHANGED <<pending_sync, syncwait, pc, cur>>
    /\ UNCHANGED <<inbox, eof, answered, garbage>>
    /\ UNCHANGED <<readerVars, batchVars, releaseVars, eventVars>>
    /\ UNCHANGED <<sendVars, histVars>>
    /\ UNCHANGED <<apiVars, coVars, lockVars>>

\* call_sync(), line 2163: request_id = self._next_id().
SyncAlloc(t) ==
    /\ pc[t] = "idle"
    /\ id_counter <= MaxId
    /\ cur' = [cur EXCEPT ![t] = id_counter]
    /\ id_counter' = NextId(id_counter)
    /\ alloc' = Append(alloc, <<id_counter, "call_sync">>)
    /\ pc' = [pc EXCEPT ![t] = "alloc"]
    /\ UNCHANGED <<pending, pending_sync, future, syncwait>>
    /\ UNCHANGED <<netVars, readerVars, batchVars, releaseVars, eventVars>>
    /\ UNCHANGED <<sendVars, histVars>>

CallSyncAlloc(t) ==
    /\ SyncAlloc(t)
    /\ UNCHANGED <<apiVars, coVars, lockVars>>

\* call_sync(), lines 2164-2165: wait = _SyncWait(); register it.
CallSyncRegister(t) ==
    /\ pc[t] = "alloc"
    /\ syncwait' = [syncwait EXCEPT ![cur[t]] = NewSlot]
    /\ pending_sync' = pending_sync \cup {cur[t]}
    /\ pc' = [pc EXCEPT ![t] = "registered"]
    /\ UNCHANGED <<id_counter, pending, future, cur, alloc>>
    /\ UNCHANGED <<netVars, readerVars, batchVars, releaseVars, eventVars>>
    /\ UNCHANGED <<sendVars, histVars>>
    /\ UNCHANGED <<apiVars, coVars, lockVars>>

\* call_sync() reaches send (2183) only with the waiter registered (2165).
MaySendUnregistered(p) == p \in {"alloc", "registered"}
MaySend(p) == p = "registered"

\* call_sync(), line 2183: self.send(message); the thread then parks in
\* wait.event.wait().
CallSyncSend(t) ==
    /\ MaySend(pc[t])
    /\ wire' = Send(wire, CallMessage(cur[t]))
    /\ pc' = [pc EXCEPT ![t] = "parked"]
    /\ UNCHANGED <<id_counter, pending, pending_sync, future, syncwait, cur,
                   alloc>>
    /\ UNCHANGED <<inbox, eof, answered, garbage>>
    /\ UNCHANGED <<readerVars, batchVars, releaseVars, eventVars>>
    /\ UNCHANGED <<sendVars, histVars>>
    /\ UNCHANGED <<apiVars, coVars, lockVars>>

\* call_sync(), lines 2184-2187: the event is set; raise wait.error or
\* return wait.result.
CallSyncReturn(t) ==
    /\ pc[t] = "parked"
    /\ syncwait[cur[t]].st # "pending"
    /\ pc' = [pc EXCEPT ![t] = "idle"]
    /\ cur' = [cur EXCEPT ![t] = 0]
    /\ UNCHANGED <<id_counter, pending, pending_sync, future, syncwait, alloc>>
    /\ UNCHANGED <<netVars, readerVars, batchVars, releaseVars, eventVars>>
    /\ UNCHANGED <<sendVars, histVars>>
    /\ UNCHANGED <<apiVars, coVars, lockVars>>

\* ---------------------------------------------------------------- the host
\* Request ids the host has seen: call and wait frames, and the messages of
\* call_batch frames.
WireIds ==
    {wire[i].id : i \in {j \in 1..Len(wire) : wire[j].type \in {"call", "wait"}}}
    \cup UNION {{wire[i].messages[k].id : k \in 1..Len(wire[i].messages)} :
                i \in {j \in 1..Len(wire) : wire[j].type = "call_batch"}}

\* The terminal frames the host may send for a request: a return whose result
\* decodes, a return whose result _deserialize rejects (for instance
\* {"__uuid__": "x"}), an error with code ENTITY_GONE, any other error.
Replies(id) ==
    {[type |-> "return", id |-> id, code |-> "", ok |-> TRUE],
     [type |-> "return", id |-> id, code |-> "", ok |-> FALSE],
     [type |-> "error", id |-> id, code |-> "ENTITY_GONE", ok |-> TRUE],
     [type |-> "error", id |-> id, code |-> "OTHER", ok |-> TRUE]}

HostReply ==
    /\ ~eof
    /\ \E id \in WireIds \ answered : \E m \in Replies(id) :
          /\ inbox' = Append(inbox, m)
          /\ answered' = answered \cup {id}
    /\ UNCHANGED <<wire, eof, garbage>>
    /\ UNCHANGED <<callVars, readerVars, batchVars, releaseVars, eventVars>>
    /\ UNCHANGED <<sendVars, histVars>>
    /\ UNCHANGED <<apiVars, coVars, lockVars>>

\* A return or error frame nobody is waiting for: its id was never on the
\* wire, or the host has answered it before.
HostStray ==
    /\ ~eof
    /\ Len(inbox) + Len(loopq) < MaxInFlight
    /\ \E id \in (Ids \ WireIds) \cup answered : \E m \in Replies(id) :
          inbox' = Append(inbox, m)
    /\ UNCHANGED <<wire, eof, answered, garbage>>
    /\ UNCHANGED <<callVars, readerVars, batchVars, releaseVars, eventVars>>
    /\ UNCHANGED <<sendVars, histVars>>
    /\ UNCHANGED <<apiVars, coVars, lockVars>>

\* Bytes that _json_loads rejects.  The reader stops at the first such frame,
\* so one is all it can ever read.
HostGarbage ==
    /\ ~eof
    /\ ~garbage
    /\ inbox' = Append(inbox, [type |-> "garbage", id |-> 0, code |-> "", ok |-> FALSE])
    /\ garbage' = TRUE
    /\ UNCHANGED <<wire, eof, answered>>
    /\ UNCHANGED <<callVars, readerVars, batchVars, releaseVars, eventVars>>
    /\ UNCHANGED <<sendVars, histVars>>
    /\ UNCHANGED <<apiVars, coVars, lockVars>>

HostClose ==
    /\ ~eof
    /\ eof' = TRUE
    /\ UNCHANGED <<wire, inbox, answered, garbage>>
    /\ UNCHANGED <<callVars, readerVars, batchVars, releaseVars, eventVars>>
    /\ UNCHANGED <<sendVars, histVars>>
    /\ UNCHANGED <<apiVars, coVars, lockVars>>

\* ------------------------------------------------------- the reader thread
\* dict.pop(msg_id, None): the key itself when it is registered, else none (0).
LookupAny(registry, msg_id) ==
    IF registry = {} THEN 0
    ELSE CHOOSE i \in registry : \A j \in registry : i <= j
Lookup(registry, msg_id) == IF msg_id \in registry THEN msg_id ELSE 0

\* The frame's result or error as it is stored into a slot; a return whose
\* result does not deserialize stores nothing (the exception propagates).
Decodes(m) == m.type = "error" \/ m.ok
Outcome(slot, m, exc) ==
    IF m.type = "return"
    THEN Resolved(slot, "result", m.id, "none")
    ELSE Resolved(slot, "error", m.id, exc)

\* loop.call_soon_threadsafe(cb): the callback joins the scheduler's queue.
CallSoonDropped(q, cb) == q
CallSoon(q, cb) == Append(q, cb)

\* _reader, one iteration of the while loop (2279-2307).
ReaderFrame ==
    /\ reader = "run"
    /\ inbox # <<>>
    /\ LET m == Head(inbox)
           k == IF m.type \in {"return", "error"}
                THEN Lookup(pending_sync, m.id) ELSE 0
       IN  /\ inbox' = Tail(inbox)
           /\ IF m.type = "garbage"
              THEN \* _json_loads raises: except branch, break
                   /\ loopq' = CallSoon(loopq, [cb |-> "handle_reader_error",
                                                exc |-> "DecodeError"])
                   /\ reader' = "finally"
                   /\ ended' = "error"
                   /\ UNCHANGED <<pending_sync, syncwait>>
              ELSE IF k # 0
              THEN /\ pending_sync' = pending_sync \ {k}
                   /\ IF Decodes(m)
                      THEN /\ syncwait' = [syncwait EXCEPT ![k] =
                                                   Outcome(@, m, SyncError(m))]
                           /\ UNCHANGED <<loopq, reader, ended>>
                      ELSE \* _deserialize raises after the pop
                           /\ loopq' = CallSoon(loopq,
                                                [cb |-> "handle_reader_error",
                                                 exc |-> "DecodeError"])
                           /\ reader' = "finally"
                           /\ ended' = "error"
                           /\ UNCHANGED syncwait
              ELSE /\ loopq' = CallSoon(loopq, [cb |-> "handle_message",
                                                msg |-> m])
                   /\ UNCHANGED <<pending_sync, syncwait, reader, ended>>
    /\ UNCHANGED <<id_counter, pending, future, pc, cur, alloc>>
    /\ UNCHANGED <<wire, eof, answered, garbage, snap>>
    /\ UNCHANGED <<batchVars, releaseVars, eventVars>>
    /\ UNCHANGED <<sendVars, histVars>>
    /\ UNCHANGED <<apiVars, coVars, lockVars>>

\* _read_exact returns None (2280-2281, 2285-2286): end of stream.
ReaderEOF ==
    /\ reader = "run"
    /\ inbox = <<>>
    /\ eof
    /\ reader' = "finally"
    /\ ended' = "eof"
    /\ UNCHANGED <<snap, loopq>>
    /\ UNCHANGED <<callVars, netVars, batchVars, releaseVars, eventVars>>
    /\ UNCHANGED <<sendVars, histVars>>
    /\ UNCHANGED <<apiVars, coVars, lockVars>>

\* finally, line 2311: list(self._pending_sync.values()).
ReaderSnapshot ==
    /\ reader = "finally"
    /\ snap' = pending_sync
    /\ reader' = "wake"
    /\ UNCHANGED <<ended, loopq>>
    /\ UNCHANGED <<callVars, netVars, batchVars, releaseVars, eventVars>>
    /\ UNCHANGED <<sendVars, histVars>>
    /\ UNCHANGED <<apiVars, coVars, lockVars>>

\* finally, lines 2311-2313: every wait of the snapshot gets the
\* disconnect error and is signaled.
ReaderWake ==
    /\ reader = "wake"
    /\ syncwait' = [i \in Ids |->
                      IF i \in snap
                      THEN Resolved(syncwait[i], "error", 0, "ConnectionLost")
                      ELSE syncwait[i]]
    /\ reader' = "clear"
    /\ UNCHANGED <<ended, snap, loopq>>
    /\ UNCHANGED <<id_counter, pending, pending_sync, future, pc, cur,
                   alloc>>
    /\ UNCHANGED <<netVars, batchVars, releaseVars, eventVars>>
    /\ UNCHANGED <<sendVars, histVars>>
    /\ UNCHANGED <<apiVars, coVars, lockVars>>

\* finally, line 2314: self._pending_sync.clear().
ReaderClear ==
    /\ reader = "clear"
    /\ pending_sync' = {}
    /\ snap' = {}
    /\ reader' = "post"
    /\ UNCHANGED <<ended, loopq>>
    /\ UNCHANGED <<id_counter, pending, future, syncwait, pc, cur, alloc>>
    /\ UNCHANGED <<netVars, batchVars, releaseVars, eventVars>>
    /\ UNCHANGED <<sendVars, histVars>>
    /\ UNCHANGED <<apiVars, coVars, lockVars>>

\* finally, line 2316: call_soon_threadsafe(_handle_reader_error,
\* disconnect_error); the thread ends.
ReaderPost ==
    /\ reader = "post"
    /\ loopq' = CallSoon(loopq, [cb |-> "handle_reader_error",
                                 exc |-> "ConnectionLost"])
    /\ reader' = "done"
    /\ UNCHANGED <<ended, snap>>
    /\ UNCHANGED <<callVars, netVars, batchVars, releaseVars, eventVars>>
    /\ UNCHANGED <<sendVars, histVars>>
    /\ UNCHANGED <<apiVars, coVars, lockVars>>

\* ------------------------------------------------ the scheduler's callbacks
\* _handle_message for a return or error frame (2320-2333): pop the future
\* and resolve it; a result that does not deserialize raises after the pop.
HandleMessage ==
    /\ LoopFree
    /\ loopq # <<>>
    /\ Head(loopq).cb = "handle_message"
    /\ Head(loopq).msg.type \in {"return", "error"}
    /\ LET m == Head(loopq).msg
           k == Lookup(pending, m.id)
       IN  /\ pending' = pending \ {k}
           /\ future' = IF k # 0 /\ Decodes(m)
                        THEN [future EXCEPT ![k] = Outcome(@, m, AsyncError(m))]
                        ELSE future
    /\ loopq' = Tail(loopq)
    /\ UNCHANGED <<id_counter, pending_sync, syncwait, pc, cur, alloc>>
    /\ UNCHANGED <<reader, ended, snap>>
    /\ UNCHANGED <<netVars, batchVars, releaseVars, eventVars>>
    /\ UNCHANGED <<sendVars, histVars>>
    /\ UNCHANGED <<apiVars, coVars, lockVars>>

\* _handle_reader_error (2411-2414): every future still in _pending that is
\* not done gets the exception; _pending itself is left as it is.
HandleReaderError ==
    /\ LoopFree
    /\ loopq # <<>>
    /\ Head(loopq).cb = "handle_reader_error"
    /\ future' = [i \in Ids |->
                    IF i \in pending /\ future[i].st = "pending"
                    THEN Resolved(future[i], "error", 0, Head(loopq).exc)
                    ELSE future[i]]
    /\ loopq' = Tail(loopq)
    /\ UNCHANGED <<id_counter, pending, pending_sync, syncwait, pc, cur,
                   alloc>>
    /\ UNCHANGED <<reader, ended, snap>>
    /\ UNCHANGED <<netVars, batchVars, releaseVars, eventVars>>
    /\ UNCHANGED <<sendVars, histVars>>
    /\ UNCHANGED <<apiVars, coVars, lockVars>>

\* ------------------------------------------------------------ batch manager
\* _current_batch_mode (2203-2206).
CurrentBatchModeTop(stack) ==
    IF stack = <<>> THEN "none" ELSE stack[Len(stack)]
CurrentBatchMode(stack) ==
    IF stack = <<>> THEN "none"
    ELSE IF "atomic" \in Range(stack) THEN "atomic" ELSE "frame"

\* flush (2208-2216): nothing when the buffer is empty; otherwise one
\* call_batch frame tagged from the scope stack as it is when flush runs.
RECURSIVE FlushWireEach(_, _, _)
FlushWireEach(stack, msgs, w) ==
    IF msgs = <<>> THEN w
    ELSE FlushWireEach(stack, Tail(msgs),
                       Send(w, [type |-> "call_batch",
                                atomic |-> (CurrentBatchMode(stack) = "atomic"),
                                messages |-> <<Head(msgs)>>]))
FlushWire(stack, msgs, w) ==
    IF msgs = <<>> THEN w
    ELSE Send(w, [type |-> "call_batch",
                  atomic |-> (CurrentBatchMode(stack) = "atomic"),
                  messages |-> msgs])

\* flush (2217): with a non-empty buffer the coroutine suspends in
\* asyncio.gather over the futures it took from the buffer.
Gathering(futs, fl) ==
    IF futs = <<>> THEN fl
    ELSE Append(fl, [futures |-> futs, out |-> "waiting", exc |-> 0])

\* _BatchContext.__aenter__ -> _begin_batch (2072-2074, 2196-2197).
EnterScope(mode) ==
    /\ LoopFree
    /\ Len(batch_stack) + Len(exits) < MaxScopes
    /\ batch_stack' = Append(batch_stack, mode)
    /\ UNCHANGED <<batch_messages, batch_futures, exits>>
    /\ UNCHANGED <<callVars, netVars, readerVars, releaseVars, eventVars>>
    /\ UNCHANGED <<sendVars, histVars>>

BeginBatch(mode) ==
    /\ EnterScope(mode)
    /\ UNCHANGED <<apiVars, coVars, lockVars>>

\* The scope stack after _end_batch (2199-2201), which __aexit__ runs before
\* flush.
StackAtFlush(stack) == SubSeq(stack, 1, Len(stack) - 1)

\* _BatchContext.__aexit__ without an exception (2076-2080): _end_batch,
\* then flush.  exits records the stack the scope was left from and the
\* position of the call_batch frame it wrote (0: nothing was buffered).
LeaveScope ==
    /\ LoopFree
    /\ batch_stack # <<>>
    /\ batch_stack' = StackAtFlush(batch_stack)
    /\ wire' = FlushWire(batch_stack', batch_messages, wire)
    /\ batch_messages' = <<>>
    /\ batch_futures' = <<>>
    /\ exits' = Append(exits, [stack |-> batch_stack, raised |-> FALSE,
                               frame |-> IF batch_messages = <<>> THEN 0
                                         ELSE Len(wire) + 1])
    /\ flushes' = Gathering(batch_futures, flushes)
    /\ UNCHANGED <<inbox, eof, answered, garbage>>
    /\ UNCHANGED <<callVars, readerVars, releaseVars, eventVars>>
    /\ UNCHANGED <<sendVars, log>>

ExitBatch ==
    /\ LeaveScope
    /\ UNCHANGED <<apiVars, coVars, lockVars>>

\* _BatchContext.__aexit__ with an exception: _end_batch only.
ExitBatchRaised ==
    /\ LoopFree
    /\ batch_stack # <<>>
    /\ batch_stack' = StackAtFlush(batch_stack)
    /\ exits' = Append(exits, [stack |-> batch_stack, raised |-> TRUE,
                               frame |-> 0])
    /\ UNCHANGED <<batch_messages, batch_futures>>
    /\ UNCHANGED <<callVars, netVars, readerVars, releaseVars, eventVars>>
    /\ UNCHANGED <<sendVars, histVars>>
    /\ UNCHANGED <<apiVars, coVars, lockVars>>

\* Server.flush -> BridgeConnection.flush, called inside a scope or outside.
Flush ==
    /\ LoopFree
    /\ batch_messages # <<>>
    /\ wire' = FlushWire(batch_stack, batch_messages, wire)
    /\ batch_messages' = <<>>
    /\ batch_futures' = <<>>
    /\ flushes' = Gathering(batch_futures, flushes)
    /\ UNCHANGED <<batch_stack, exits>>
    /\ UNCHANGED <<inbox, eof, answered, garbage>>
    /\ UNCHANGED <<callVars, readerVars, releaseVars, eventVars>>
    /\ UNCHANGED <<sendVars, log>>
    /\ UNCHANGED <<apiVars, coVars, lockVars>>

\* asyncio.gather(*futures, return_exceptions=True) (2217) returns once every
\* future is done, with a result or with an exception.
GatherAny(futs) ==
    \E i \in 1..Len(futs) : future[futs[i]].st \in {"result", "error"}
GatherDone(futs) ==
    \A i \in 1..Len(futs) : future[futs[i]].st \in {"result", "error"}

\* The loop over the gathered results (2218-2220): the future whose exception
\* is raised, 0 when no result is an exception.
RECURSIVE FirstFailure(_)
FirstFailure(futs) ==
    IF futs = <<>> THEN 0
    ELSE IF future[Head(futs)].st = "error" THEN Head(futs)
    ELSE FirstFailure(Tail(futs))

\* flush after gather has returned (2217-2221): raise the first exception
\* among the results, or return None.
FlushDone ==
    /\ LoopFree
    /\ \E k \in 1..Len(flushes) :
          /\ flushes[k].out = "waiting"
          /\ GatherDone(flushes[k].futures)
          /\ flushes' = [flushes EXCEPT ![k] =
                IF FirstFailure(flushes[k].futures) = 0
                THEN [@ EXCEPT !.out = "returned"]
                ELSE [@ EXCEPT !.out = "raised",
                               !.exc = FirstFailure(flushes[k].futures)]]
    /\ UNCHANGED log
    /\ UNCHANGED <<callVars, netVars, readerVars, batchVars, releaseVars,
                   eventVars, sendVars>>
    /\ UNCHANGED <<apiVars, coVars, lockVars>>

\* ------------------------------------------------------ handle release queue
\* _queue_release (2237-2241), run by ProxyBase.__del__ under _release_lock:
\* append, and flush once the queue has reached the threshold.
FlushDueLate(q) == Len(q) > ReleaseThreshold
FlushDue(q) == Len(q) >= ReleaseThreshold

QueueHandle(handle) ==
    /\ LET q == Append(release_queue, handle)
       IN  IF FlushDue(q)
           THEN /\ wire' = FlushedWire(q, wire)
                /\ release_queue' = <<>>
           ELSE /\ wire' = wire
                /\ release_queue' = q
    /\ UNCHANGED <<inbox, eof, answered, garbage>>
    /\ UNCHANGED <<callVars, readerVars, batchVars, eventVars>>
    /\ UNCHANGED <<sendVars, histVars>>

\* A proxy nobody holds is discarded: each one carries a handle of its own.
QueueRelease ==
    /\ next_handle <= MaxHandles
    /\ QueueHandle(next_handle)
    /\ next_handle' = next_handle + 1
    /\ UNCHANGED <<apiVars, coVars, lockVars>>

\* ---------------------------------------------------------- event dispatcher
\* on() (2130-2131).
On(name, h) ==
    /\ LoopFree
    /\ Len(handlers["chat"]) + Len(handlers["hurt"])
          + Len(handlers["shutdown"]) < MaxHandlers
    /\ handlers' = [handlers EXCEPT ![name] = Append(@, h)]
    /\ UNCHANGED <<events, tasks>>
    /\ UNCHANGED <<callVars, netVars, readerVars, batchVars, releaseVars>>
    /\ UNCHANGED <<sendVars, histVars>>
    /\ UNCHANGED <<apiVars, coVars, lockVars>>

\* The host pushes an event frame.  eid is the payload's "id" (0: the payload
\* carries none), damage says whether the payload has a "damage" key.
HostEvent ==
    /\ ~eof
    /\ events < MaxEvents
    /\ \E name \in EventNames, eid \in {0, events + 1}, dmg \in BOOLEAN :
          inbox' = Append(inbox, [type |-> "event", id |-> 0, code |-> "",
                                  ok |-> TRUE, event |-> name, eid |-> eid,
                                  damage |-> dmg])
    /\ events' = events + 1
    /\ UNCHANGED <<handlers, tasks>>
    /\ UNCHANGED <<wire, eof, answered, garbage>>
    /\ UNCHANGED <<callVars, readerVars, batchVars, releaseVars>>
    /\ UNCHANGED <<sendVars, histVars>>
    /\ UNCHANGED <<apiVars, coVars, lockVars>>

\* _handle_message for an event frame (2334-2349): the payload's id and keys
\* are copied into the event proxy's fields and a _dispatch_event task is
\* created; its first step joins the scheduler's ready queue.
HandleEvent ==
    /\ LoopFree
    /\ loopq # <<>>
    /\ Head(loopq).cb = "handle_message"
    /\ Head(loopq).msg.type = "event"
    /\ loopq' = Append(Tail(loopq), [cb |-> "dispatch_event",
                                     ev |-> Head(loopq).msg])
    /\ UNCHANGED <<reader, ended, snap>>
    /\ UNCHANGED <<callVars, netVars, batchVars, releaseVars, eventVars>>
    /\ UNCHANGED <<sendVars, histVars>>
    /\ UNCHANGED <<apiVars, coVars, lockVars>>

\* The results of calling the handlers one after the other (2363-2372): a
\* plain handler contributes its result or its exception at once, a
\* coroutine is set aside to be gathered.
RECURSIVE SyncResultsAbort(_)
SyncResultsAbort(hs) ==
    IF hs = <<>> THEN <<>>
    ELSE IF Head(hs).async THEN SyncResultsAbort(Tail(hs))
    ELSE IF Head(hs).res = "exc" THEN <<"exc">>
    ELSE <<Head(hs).res>> \o SyncResultsAbort(Tail(hs))

RECURSIVE SyncResults(_)
SyncResults(hs) ==
    IF hs = <<>> THEN <<>>
    ELSE IF Head(hs).async THEN SyncResults(Tail(hs))
    ELSE <<Head(hs).res>> \o SyncResults(Tail(hs))

RECURSIVE Awaitables(_)
Awaitables(hs) ==
    IF hs = <<>> THEN <<>>
    ELSE IF Head(hs).async THEN <<Head(hs).res>> \o Awaitables(Tail(hs))
    ELSE Awaitables(Tail(hs))

\* results once gather has returned (2373-2375): the plain handlers' results
\* followed by the gathered ones.
Results(hs) == SyncResults(hs) \o Awaitables(hs)

\* isinstance(result, str) (2387).
IsStr(r) == r = "text"

\* isinstance(result, (int, float)) (2389): a bool is an int.
IsNumber(r) == r \in {"num", "bool"}

\* The test that makes a result the damage override (2389).
OverridesDamageAnyInt(dmg, r) == dmg /\ IsNumber(r)
OverridesDamage(dmg, r) == dmg /\ IsNumber(r) /\ r # "bool"

\* event_id is not None (2380-2383): the payload carries an event id.
HasEventIdNever(ev) == FALSE
HasEventId(ev) == ev.eid # 0

\* _dispatch_event, the finally block (2379-2397).
AckWire(ev, hs, results, w) ==
    IF ~HasEventId(ev) THEN w
    ELSE LET w1 == IF hs # <<>> /\ \E i \in 1..Len(results) : IsStr(results[i])
                   THEN Send(w, [type |-> "event_result", id |-> ev.eid,
                                 result_type |-> "chat"])
                   ELSE w
             w2 == IF hs # <<>> /\ \E i \in 1..Len(results) :
                                      OverridesDamage(ev.damage, results[i])
                   THEN Send(w1, [type |-> "event_result", id |-> ev.eid,
                                  result_type |-> "damage"])
                   ELSE w1
         IN  Send(w2, [type |-> "event_done", id |-> ev.eid])

\* _dispatch_event up to its first suspension (2359-2374): with no coroutine
\* handler it runs through the finally block at once.
DispatchEvent ==
    /\ LoopFree
    /\ loopq # <<>>
    /\ Head(loopq).cb = "dispatch_event"
    /\ LET ev == Head(loopq).ev
           hs == handlers[ev.event]
       IN  IF Awaitables(hs) = <<>>
           THEN /\ wire' = AckWire(ev, hs, SyncResults(hs), wire)
                /\ tasks' = tasks
                /\ log' = Append(log, [ev |-> ev, hs |-> hs,
                                       results |-> SyncResults(hs)])
           ELSE /\ wire' = wire
                /\ tasks' = Append(tasks, [ev |-> ev, hs |-> hs])
                /\ log' = log
    /\ loopq' = Tail(loopq)
    /\ UNCHANGED <<handlers, events>>
    /\ UNCHANGED <<reader, ended, snap>>
    /\ UNCHANGED <<inbox, eof, answered, garbage>>
    /\ UNCHANGED <<callVars, batchVars, releaseVars>>
    /\ UNCHANGED <<sendVars, flushes>>
    /\ UNCHANGED <<apiVars, coVars, lockVars>>

\* _handle_shutdown, the finally block (2405-2409).
ShutdownAckTwice(w) ==
    Send(Send(w, [type |-> "shutdown_ack"]), [type |-> "shutdown_ack"])
ShutdownAck(w) == Send(w, [type |-> "shutdown_ack"])

\* What the coroutine awaiting a dispatch does once the dispatch returns:
\* _handle_shutdown goes on to its finally block, a plain event task ends.
Resumed(ev, w) == IF ev.type = "shutdown" THEN ShutdownAck(w) ELSE w

\* _dispatch_event after asyncio.gather returns (2374-2397).
DispatchGathered ==
    /\ LoopFree
    /\ \E i \in 1..Len(tasks) :
          /\ wire' = Resumed(tasks[i].ev,
                             AckWire(tasks[i].ev, tasks[i].hs,
                                     Results(tasks[i].hs), wire))
          /\ log' = Append(log, [ev |-> tasks[i].ev, hs |-> tasks[i].hs,
                                 results |-> Results(tasks[i].hs)])
          /\ tasks' = SubSeq(tasks, 1, i - 1) \o SubSeq(tasks, i + 1, Len(tasks))
    /\ UNCHANGED <<handlers, events>>
    /\ UNCHANGED <<inbox, eof, answered, garbage>>
    /\ UNCHANGED <<callVars, readerVars, batchVars, releaseVars>>
    /\ UNCHANGED <<sendVars, flushes>>
    /\ UNCHANGED <<apiVars, coVars, lockVars>>

\* --------------------------------------------------------------- event_batch
\* The payloads a batch may carry: with or without an id, with or without a
\* damage key, and ok says whether _deserialize accepts the payload.
BatchPayloads(n) ==
    {ps \in [1..n -> [eid : 0..MaxEvents, damage : BOOLEAN, ok : BOOLEAN]] :
        \A i \in 1..n : ps[i].eid \in {0, events + i}}

\* The host pushes one event name with one or more payloads.
HostEventBatch ==
    /\ ~eof
    /\ \E n \in 1..(MaxEvents - events) :
          /\ \E name \in EventNames, ps \in BatchPayloads(n) :
                inbox' = Append(inbox, [type |-> "event_batch", id |-> 0,
                                        code |-> "", ok |-> TRUE,
                                        event |-> name, payloads |-> ps])
          /\ events' = events + n
    /\ UNCHANGED <<handlers, tasks>>
    /\ UNCHANGED <<wire, eof, answered, garbage>>
    /\ UNCHANGED <<callVars, readerVars, batchVars, releaseVars>>
    /\ UNCHANGED <<sendVars, histVars, apiVars, coVars,
                   lockVars>>

\* The message _handle_message builds for one payload of a batch (2353).
Replayed(name, p) ==
    [type |-> "event", id |-> 0, code |-> "", ok |-> TRUE, event |-> name,
     eid |-> p.eid, damage |-> p.damage]

\* The for loop over the payloads (2352-2353): each one is handled by a
\* nested _handle_message, which creates the dispatch task after
\* _deserialize; when _deserialize raises, the exception leaves the loop.
RECURSIVE Replay(_, _)
Replay(name, ps) ==
    IF ps = <<>> THEN <<>>
    ELSE IF ~Head(ps).ok THEN <<>>
    ELSE <<[cb |-> "dispatch_event", ev |-> Replayed(name, Head(ps))]>>
         \o Replay(name, Tail(ps))

\* _handle_message for an event_batch frame (2350-2354).
HandleEventBatch ==
    /\ LoopFree
    /\ loopq # <<>>
    /\ Head(loopq).cb = "handle_message"
    /\ Head(loopq).msg.type = "event_batch"
    /\ loopq' = Tail(loopq) \o Replay(Head(loopq).msg.event,
                                      Head(loopq).msg.payloads)
    /\ UNCHANGED <<reader, ended, snap>>
    /\ UNCHANGED <<callVars, netVars, batchVars, releaseVars, eventVars>>
    /\ UNCHANGED <<sendVars, histVars, apiVars, coVars,
                   lockVars>>

\* ------------------------------------------------------------------ shutdown
\* The host announces its shutdown.
ShutdownFrame == [type |-> "shutdown", id |-> 0, code |-> "", ok |-> TRUE]

HostShutdown ==
    /\ ~eof
    /\ events < MaxEvents
    /\ inbox' = Append(inbox, ShutdownFrame)
    /\ events' = events + 1
    /\ UNCHANGED <<handlers, tasks>>
    /\ UNCHANGED <<wire, eof, answered, garbage>>
    /\ UNCHANGED <<callVars, readerVars, batchVars, releaseVars>>
    /\ UNCHANGED <<sendVars, histVars, apiVars, coVars,
                   lockVars>>

\* _handle_message for a shutdown frame (2355-2356): a _handle_shutdown task
\* is created; its first step joins the scheduler's ready queue.
HandleShutdownFrame ==
    /\ LoopFree
    /\ loopq # <<>>
    /\ Head(loopq).cb = "handle_message"
    /\ Head(loopq).msg.type = "shutdown"
    /\ loopq' = Append(Tail(loopq), [cb |-> "handle_shutdown"])
    /\ UNCHANGED <<reader, ended, snap>>
    /\ UNCHANGED <<callVars, netVars, batchVars, releaseVars, eventVars>>
    /\ UNCHANGED <<sendVars, histVars, apiVars, coVars,
                   lockVars>>

\* The payload of the synthetic event (2402): SimpleNamespace(fields={}) is
\* no ProxyBase, so it carries no event id and no damage field.
ShutdownPayload ==
    [type |-> "shutdown", event |-> "shutdown", eid |-> 0, damage |-> FALSE]

\* _handle_shutdown up to its first suspension (2401-2409): the dispatch runs
\* inside it; with no coroutine handler it returns at once and the finally
\* block sends the acknowledgment.
HandleShutdown ==
    /\ LoopFree
    /\ loopq # <<>>
    /\ Head(loopq).cb = "handle_shutdown"
    /\ LET ev == ShutdownPayload
           hs == handlers[ev.event]
       IN  IF Awaitables(hs) = <<>>
           THEN /\ wire' = Resumed(ev, AckWire(ev, hs, SyncResults(hs), wire))
                /\ tasks' = tasks
                /\ log' = Append(log, [ev |-> ev, hs |-> hs,
                                       results |-> SyncResults(hs)])
           ELSE /\ wire' = wire
                /\ tasks' = Append(tasks, [ev |-> ev, hs |-> hs])
                /\ log' = log
    /\ loopq' = Tail(loopq)
    /\ UNCHANGED <<handlers, events>>
    /\ UNCHANGED <<reader, ended, snap>>
    /\ UNCHANGED <<inbox, eof, answered, garbage>>
    /\ UNCHANGED <<callVars, batchVars, releaseVars>>
    /\ UNCHANGED <<sendVars, flushes, apiVars, coVars, lockVars>>

\* ------------------------------------------------- construction and bootstrap
\* The state in which BridgeConnection.__init__ is entered: nothing written,
\* no reader thread.
InitBoot ==
    /\ Fresh
    /\ wire = <<>>
    /\ reader = "off"
    /\ boot = "connect"

\* __init__ (2098-2106): open the socket, create _file and _lock, send auth.
ConnectAuth ==
    /\ boot = "connect"
    /\ wire' = Send(wire, [type |-> "auth"])
    /\ boot' = "authed"
    /\ UNCHANGED <<inbox, eof, answered, garbage, proxy, ops, coVars, lockVars>>
    /\ UNCHANGED <<callVars, readerVars, batchVars, releaseVars, eventVars,
                   sendVars, histVars>>

\* __init__ reaches self._thread.start() (2115-2116) after the auth frame.
ReaderMayStartEarly(b) == b \in {"connect", "authed"}
ReaderMayStart(b) == b = "authed"

\* __init__ (2115-2116): start the reader thread; the constructor returns and
\* _bootstrap binds _connection (4055).
StartReader ==
    /\ ReaderMayStart(boot)
    /\ reader' = "run"
    /\ boot' = "started"
    /\ UNCHANGED <<ended, snap, loopq, proxy, ops, coVars, lockVars>>
    /\ UNCHANGED <<callVars, netVars, batchVars, releaseVars, eventVars,
                   sendVars, histVars>>

\* _connection is bound: module code and the script can reach the connection.
Connected == boot \in {"started", "script"}

\* _bootstrap (4056-4066): after _prime_player_cache the script is run.
RunScript ==
    /\ boot = "started"
    /\ pc["main"] = "idle"
    /\ boot' = "script"
    /\ UNCHANGED <<proxy, ops, coVars, lockVars>>
    /\ UNCHANGED <<callVars, netVars, readerVars, batchVars, releaseVars,
                   eventVars, sendVars, histVars>>

\* subscribe (2119-2121), called by the script's @event decorators.
Subscribe ==
    /\ boot = "script"
    /\ Cardinality({i \in 1..Len(wire) : wire[i].type = "subscribe"})
          < MaxHandlers
    /\ wire' = Send(wire, [type |-> "subscribe"])
    /\ UNCHANGED <<inbox, eof, answered, garbage>>
    /\ UNCHANGED <<callVars, readerVars, batchVars, releaseVars, eventVars,
                   sendVars, histVars, apiVars, coVars,
                   lockVars>>

\* register_command (2123-2128), called by the script's @command decorators.
RegisterCommand ==
    /\ boot = "script"
    /\ Cardinality({i \in 1..Len(wire) : wire[i].type = "register_command"})
          < MaxHandlers
    /\ wire' = Send(wire, [type |-> "register_command"])
    /\ UNCHANGED <<inbox, eof, answered, garbage>>
    /\ UNCHANGED <<callVars, readerVars, batchVars, releaseVars, eventVars,
                   sendVars, histVars, apiVars, coVars,
                   lockVars>>

\* _bootstrap (4067): the script has run; send ready.
Ready ==
    /\ boot = "script"
    /\ pc["main"] = "idle"
    /\ wire' = Send(wire, [type |-> "ready"])
    /\ boot' = "ready"
    /\ UNCHANGED <<inbox, eof, answered, garbage, proxy, ops, coVars, lockVars>>
    /\ UNCHANGED <<callVars, readerVars, batchVars, releaseVars, eventVars,
                   sendVars, histVars>>

\* ------------------------------------------------------------------ proxies
\* Python values are records tagged with their kind: "proxy", "enum",
\* "uuid", or "prim" for a str or a number.  A proxy object is a record of
\* its class and the attributes __init__ sets: _handle (0 for None), fields,
\* _target and _ref_type ("None" for None) and _ref_id.  A ref id is kept
\* as the parts its text is joined from: <<"w", "1", "2", "3">> is
\* "w:1:2:3", <<"">> the empty string and <<>> None.  _type_name is stored
\* by __init__ and read by nothing below.
Prim(s) == [kind |-> "prim", v |-> s]
NoId == <<>>

\* fields=None, as opposed to an empty dict.
NoFields == [none |-> TRUE]

\* A key that is absent from a message.
NoValue == [kind |-> "absent"]

\* ProxyBase.__init__ (174-185); keyword arguments beyond the named ones are
\* merged into fields and are given here as fields.
ProxyBaseInit(cls, handle, fields, target, ref_type, ref_id) ==
    [kind |-> "proxy",
     cls |-> cls,
     handle |-> handle,
     fields |-> IF fields = NoFields THEN <<>> ELSE fields,
     target |-> target,
     ref_type |-> ref_type,
     ref_id |-> ref_id]

\* dict.setdefault(k, v) and a dict literal with one more key.
SetDefault(f, k, v) ==
    IF k \in DOMAIN f THEN f
    ELSE [n \in DOMAIN f \cup {k} |-> IF n = k THEN v ELSE f[n]]
Put(f, k, v) == [n \in DOMAIN f \cup {k} |-> IF n = k THEN v ELSE f[n]]

\* Entity.__init__ (370-380), also run by Player through super().
EntityInit(cls, handle, fields, target, uuid, ref_type, ref_id) ==
    IF handle = 0 /\ uuid # "None"
    THEN LET p == ProxyBaseInit(cls, 0, fields, "ref", "entity", <<uuid>>)
         IN  [p EXCEPT !.fields = SetDefault(@, "uuid", Prim(uuid))]
    ELSE IF handle = 0 /\ ref_type # "None" /\ ref_id # NoId
    THEN ProxyBaseInit(cls, 0, fields, "ref", ref_type, ref_id)
    ELSE ProxyBaseInit(cls, handle, fields, target, "None", NoId)

\* uuid.UUID(s) accepts the text s; str() of the result is its canonical
\* lower-case form.
IsUuid(s) == s \in {"U-1", "u-1"}
Canonical(s) == IF s = "U-1" THEN "u-1" ELSE s

\* Player.__init__ (467-495).  text is a lone positional str argument (the
\* handle parameter holding a name or a uuid), "None" when the handle is an
\* int or absent; cache is _player_uuid_cache, as earlier responses left it.
PlayerInit(text, handle, fields, target, uuid, name, cache) ==
    LET lone == /\ text # "None"
                /\ uuid = "None" /\ name = "None"
                /\ fields = NoFields /\ target = "None"
        uuid1 == IF lone /\ IsUuid(text) THEN Canonical(text) ELSE uuid
        name1 == IF lone /\ ~IsUuid(text) THEN text ELSE name
        byUuid == handle = 0 /\ uuid1 # "None" /\ name1 = "None"
        name2 == IF byUuid /\ ~IsUuid(uuid1) THEN uuid1 ELSE name1
        fields2 == IF fields = NoFields /\ name2 \in DOMAIN cache
                   THEN [uuid |-> Prim(cache[name2]), name |-> Prim(name2)]
                   ELSE fields
    IN  IF byUuid /\ IsUuid(uuid1)
        THEN EntityInit("Player", 0, fields, "ref", Canonical(uuid1),
                        "None", NoId)
        ELSE IF handle = 0 /\ name2 # "None"
        THEN EntityInit("Player", 0, fields2, "ref", "None",
                        "player_name", <<name2>>)
        ELSE EntityInit("Player", handle, fields, target, "None",
                        "None", NoId)

\* World.__init__ (773-778).
WorldInit(handle, fields, target, name) ==
    IF handle = 0 /\ name # "None"
    THEN LET p == ProxyBaseInit("World", 0, fields, "ref", "world", <<name>>)
         IN  [p EXCEPT !.fields = SetDefault(@, "name", Prim(name))]
    ELSE ProxyBaseInit("World", handle, fields, target, "None", NoId)

\* The world argument of Block and Chunk: None, a str or a World proxy.
NoWorld == [kind |-> "none"]
WorldStr(s) == [kind |-> "str", name |-> s]
WorldProxy(p) == [kind |-> "proxy", proxy |-> p]

\* Block.__init__ and Chunk.__init__, lines 1150-1154 and 1233-1237: a str
\* becomes World(name=world); world.fields.get("name"), "None" if missing.
AsWorld(world) ==
    IF world.kind = "str" THEN WorldInit(0, NoFields, "None", world.name)
    ELSE world.proxy
WorldName(world) ==
    IF "name" \in DOMAIN AsWorld(world).fields
    THEN AsWorld(world).fields.name.v ELSE "None"

\* str.upper(), and the EnumValue dataclass (129-141).
Upper(s) == IF s = "stone" THEN "STONE" ELSE s
EnumValue(type, name) == [kind |-> "enum", type |-> type, name |-> name]

\* Material.from_name(material.upper()) (139-141, 1658-1660).
MaterialFromName(s) == EnumValue("org.bukkit.Material", Upper(s))

\* Block.__init__ (1148-1163).  xyz holds the three coordinates as given, or
\* <<>> when one of them is None; int(x) is formatted as its digits.
BlockInit(world, xyz, material, handle, fields, target) ==
    IF handle = 0 /\ fields = NoFields /\ world # NoWorld /\ xyz # <<>>
    THEN LET f0 == [x |-> Prim(xyz[1]), y |-> Prim(xyz[2]),
                    z |-> Prim(xyz[3]), world |-> AsWorld(world)]
             f1 == IF material = "None" THEN f0
                   ELSE Put(f0, "type", MaterialFromName(Upper(material)))
             ref_id == IF WorldName(world) # "None"
                       THEN <<WorldName(world)>> \o xyz ELSE NoId
         IN  ProxyBaseInit("Block", 0, f1, "ref", "block", ref_id)
    ELSE ProxyBaseInit("Block", handle, fields, target, "None", NoId)

\* Chunk.__init__ (1231-1242).
ChunkInit(world, xz, handle, fields, target) ==
    IF handle = 0 /\ fields = NoFields /\ world # NoWorld /\ xz # <<>>
    THEN LET f0 == [x |-> Prim(xz[1]), z |-> Prim(xz[2]),
                    world |-> AsWorld(world)]
             ref_id == IF WorldName(world) # "None"
                       THEN <<WorldName(world)>> \o xz ELSE NoId
         IN  ProxyBaseInit("Chunk", 0, f0, "ref", "chunk", ref_id)
    ELSE ProxyBaseInit("Chunk", handle, fields, target, "None", NoId)

\* ---------------------------------------------------------------- the codec
\* JSON objects are records with a tag naming their marker key; str and
\* numbers stay as they are.
\* uuid.UUID(text).
UuidOf(text) == [kind |-> "uuid", text |-> Canonical(text)]

\* _serialize for a reference-bound proxy, lines 2423-2424: Python
\* truthiness of _ref_type and _ref_id.
Truthy(s) == s \notin {"None", ""}
TruthyId(id) == id \notin {NoId, <<"">>}
IsRefNever(p) == FALSE
IsRef(p) == p.target = "ref" /\ Truthy(p.ref_type) /\ TruthyId(p.ref_id)

\* _serialize (2419-2436).
RECURSIVE Serialize(_)
Serialize(v) ==
    IF v.kind = "proxy"
    THEN IF v.handle # 0
         THEN [tag |-> "__handle__", handle |-> v.handle]
         ELSE IF IsRef(v)
         THEN [tag |-> "__ref__", type |-> v.ref_type, id |-> v.ref_id]
         ELSE [tag |-> "__value__", cls |-> v.cls,
               fields |-> [k \in DOMAIN v.fields |-> Serialize(v.fields[k])]]
    ELSE IF v.kind = "enum"
    THEN [tag |-> "__enum__", type |-> v.type, name |-> v.name]
    ELSE IF v.kind = "uuid"
    THEN [tag |-> "__uuid__", text |-> v.text]
    ELSE v

\* _enum_from (3521-3536): the class registered for the type name is
\* instantiated; Material upper-cases the name (1658-1660).
EnumFrom(type, name) ==
    IF type = "org.bukkit.Material" THEN EnumValue(type, Upper(name))
    ELSE EnumValue(type, name)

\* _proxy_from, the choice of the class (3551-3597).
ProxyClass(type_name) ==
    IF type_name \in {"Event", "PlayerJoinEvent"} THEN "Event"
    ELSE IF type_name \in {"Server", "Player", "Entity", "World", "Block",
                           "Chunk"} THEN type_name
    ELSE IF type_name = "CraftPlayer" THEN "Player"
    ELSE "ProxyBase"

\* proxy_cls(handle=handle, type_name=type_name, fields=fields) (3598).
NewProxy(cls, handle, fields, cache) ==
    IF cls = "Player"
    THEN PlayerInit("None", handle, fields, "None", "None", "None", cache)
    ELSE IF cls = "Entity"
    THEN EntityInit("Entity", handle, fields, "None", "None", "None", NoId)
    ELSE IF cls = "World" THEN WorldInit(handle, fields, "None", "None")
    ELSE IF cls = "Block"
    THEN BlockInit(NoWorld, <<>>, "None", handle, fields, "None")
    ELSE IF cls = "Chunk" THEN ChunkInit(NoWorld, <<>>, handle, fields, "None")
    ELSE ProxyBaseInit(cls, handle, fields, "None", "None", NoId)

\* _proxy_from (3538-3598): raw.get("__type__"), raw.get("fields") or {}
\* with every value deserialized, raw.get("__handle__").
RECURSIVE Deserialize(_, _)
ProxyFrom(raw, cache) ==
    NewProxy(ProxyClass(IF "type" \in DOMAIN raw THEN raw.type ELSE "None"),
             raw.handle,
             IF "fields" \in DOMAIN raw
             THEN [k \in DOMAIN raw.fields |->
                     Deserialize(raw.fields[k], cache)]
             ELSE <<>>,
             cache)

\* _deserialize (2438-2453).  A dict with none of the three marker keys
\* comes back as a dict (or a namespace when it has x, y and z) of its
\* deserialized values.
Deserialize(j, cache) ==
    IF "tag" \in DOMAIN j
    THEN IF j.tag = "__handle__" THEN ProxyFrom(j, cache)
         ELSE IF j.tag = "__uuid__" THEN UuidOf(j.text)
         ELSE IF j.tag = "__enum__" THEN EnumFrom(j.type, j.name)
         ELSE [kind |-> "dict", json |-> j]
    ELSE j

\* ------------------------------------------------- operations on a proxy
\* connection.call as a proxy reaches it (2133-2160): the message carries
\* the method, the serialized arguments and, when given, handle, target,
\* field and value ("None" and 0 where the key is absent).
ConnectionCall(method, args, handle, target, field, value) ==
    /\ LoopFree
    /\ id_counter <= MaxId
    /\ LET id == id_counter
           w1 == FlushedWire(release_queue, wire)
           m == [type |-> "call", id |-> id, method |-> method,
                 args_list |-> args, handle |-> handle, target |-> target,
                 field |-> field, value |-> value]
       IN  /\ release_queue' = <<>>
           /\ id_counter' = NextId(id_counter)
           /\ future' = [future EXCEPT ![id] = NewSlot]
           /\ pending' = pending \cup {id}
           /\ alloc' = Append(alloc, <<id, "call", Len(batch_stack)>>)
           /\ IF InBatch(batch_stack)
              THEN /\ batch_messages' = Append(batch_messages, m)
                   /\ batch_futures' = Append(batch_futures, id)
                   /\ wire' = w1
              ELSE /\ wire' = Send(w1, m)
                   /\ UNCHANGED <<batch_messages, batch_futures>>
    /\ UNCHANGED <<pending_sync, syncwait, pc, cur>>
    /\ UNCHANGED <<inbox, eof, answered, garbage>>
    /\ UNCHANGED <<batch_stack, exits, next_handle>>
    /\ UNCHANGED <<readerVars, eventVars>>
    /\ UNCHANGED <<sendVars, histVars>>

\* The test _call, _call_sync and __setattr__ make (195, 203, 218).
ByHandleAlways(p) == FALSE
ByRef(p) == p.handle = 0 /\ p.target = "ref"

\* ProxyBase._call (194-199).
ProxyCall(p, method, args) ==
    IF ByRef(p)
    THEN ConnectionCall("call", <<p.ref_type, p.ref_id, method, args>>,
                        0, "ref", "None", NoValue)
    ELSE ConnectionCall(method, args, p.handle, p.target, "None", NoValue)

\* An operation that touches nothing but the proxy.
Local ==
    UNCHANGED <<callVars, netVars, readerVars, batchVars, releaseVars,
                eventVars, sendVars, histVars>>

\* The record of the next operation.
Op(name, rest) ==
    [n |-> ops.n + 1, op |-> name, rest |-> rest]
CanOperate == LoopFree /\ ops.n < MaxOps

\* What the script passes to the constructors.
Handles == {0, 7}
Targets == {"None", "ref"}
Names == {"None", "", "Steve"}
Uuids == {"None", "U-1", "zz"}
FieldArgs == {NoFields, <<>>, [name |-> Prim("Alex")]}
EventFields == {NoFields, [k \in {"__event_id__"} |-> Prim("3")]}
Caches == {<<>>, [Steve |-> "u-1"]}
Worlds ==
    {NoWorld, WorldStr("w"), WorldStr(""),
     WorldProxy(WorldInit(0, NoFields, "None", "w")),
     WorldProxy(WorldInit(7, NoFields, "None", "None"))}

\* ProxyBase(...), Event(...), Server(...): classes that inherit __init__.
ConstructProxyBase ==
    /\ CanOperate
    /\ proxy = NoProxy
    /\ \E cls \in {"ProxyBase", "Event", "Server"}, handle \in Handles,
          fields \in {NoFields, [name |-> Prim("Alex")]} \cup EventFields,
          target \in Targets, ref_type \in {"None", "world"},
          ref_id \in {NoId, <<"w">>} :
          /\ proxy' = ProxyBaseInit(cls, handle, fields, target, ref_type,
                                    ref_id)
          /\ ops' = Op("construct",
                       [cls |-> cls, handle |-> handle, fields |-> fields,
                        target |-> target, ref_type |-> ref_type,
                        ref_id |-> ref_id])
    /\ UNCHANGED <<boot, coVars, lockVars>>
    /\ Local

\* Entity(...).
ConstructEntity ==
    /\ CanOperate
    /\ proxy = NoProxy
    /\ \E handle \in Handles, fields \in {NoFields, [name |-> Prim("Alex")]},
          target \in Targets, uuid \in {"None", "u-1"},
          ref_type \in {"None", "world"}, ref_id \in {NoId, <<"w">>} :
          /\ proxy' = EntityInit("Entity", handle, fields, target, uuid,
                                 ref_type, ref_id)
          /\ ops' = Op("construct",
                       [cls |-> "Entity", handle |-> handle,
                        fields |-> fields, target |-> target, uuid |-> uuid,
                        ref_type |-> ref_type, ref_id |-> ref_id])
    /\ UNCHANGED <<boot, coVars, lockVars>>
    /\ Local

\* Player(...): keyword arguments, or one positional str.
ConstructPlayer ==
    /\ CanOperate
    /\ proxy = NoProxy
    /\ \E text \in {"None", "Steve", "U-1"}, handle \in Handles,
          fields \in FieldArgs, target \in Targets, uuid \in Uuids,
          name \in Names, cache \in Caches :
          /\ text # "None" =>
                /\ handle = 0 /\ fields = NoFields /\ target = "None"
                /\ uuid = "None" /\ name = "None"
          /\ proxy' = PlayerInit(text, handle, fields, target, uuid, name,
                                 cache)
          /\ ops' = Op("construct",
                       [cls |-> "Player", text |-> text, handle |-> handle,
                        fields |-> fields, target |-> target, uuid |-> uuid,
                        name |-> name])
    /\ UNCHANGED <<boot, coVars, lockVars>>
    /\ Local

\* World(...).
ConstructWorld ==
    /\ CanOperate
    /\ proxy = NoProxy
    /\ \E handle \in Handles, fields \in {NoFields, [name |-> Prim("Alex")]},
          target \in Targets, name \in Names :
          /\ proxy' = WorldInit(handle, fields, target, name)
          /\ ops' = Op("construct",
                       [cls |-> "World", handle |-> handle, fields |-> fields,
                        target |-> target, name |-> name])
    /\ UNCHANGED <<boot, coVars, lockVars>>
    /\ Local

\* Block(...).
ConstructBlock ==
    /\ CanOperate
    /\ proxy = NoProxy
    /\ \E world \in Worlds, xyz \in {<<>>, <<"1", "2", "3">>},
          material \in {"None", "stone"}, handle \in Handles,
          fields \in {NoFields, <<>>}, target \in Targets :
          /\ proxy' = BlockInit(world, xyz, material, handle, fields, target)
          /\ ops' = Op("construct",
                       [cls |-> "Block", world |-> world, xyz |-> xyz,
                        handle |-> handle, fields |-> fields,
                        target |-> target])
    /\ UNCHANGED <<boot, coVars, lockVars>>
    /\ Local

\* Chunk(...).
ConstructChunk ==
    /\ CanOperate
    /\ proxy = NoProxy
    /\ \E world \in Worlds, xz \in {<<>>, <<"1", "3">>}, handle \in Handles,
          fields \in {NoFields, <<>>}, target \in Targets :
          /\ proxy' = ChunkInit(world, xz, handle, fields, target)
          /\ ops' = Op("construct",
                       [cls |-> "Chunk", world |-> world, xyz |-> xz,
                        handle |-> handle, fields |-> fields,
                        target |-> target])
    /\ UNCHANGED <<boot, coVars, lockVars>>
    /\ Local

\* _handle_message, lines 2337-2346: the payload's "event" proxy gets the
\* payload's id as __event_id__ and the payload's other keys as fields.
EventObject(payload, cache) ==
    LET event_obj == Deserialize(payload.event, cache)
        f1 == IF "id" \in DOMAIN payload
              THEN Put(event_obj.fields, "__event_id__", Prim(payload.id))
              ELSE event_obj.fields
    IN  [event_obj EXCEPT !.fields = f1]

\* What the host sends for an object it holds.
HostObjects ==
    {[tag |-> "__handle__", handle |-> 7],
     [tag |-> "__handle__", handle |-> 7, type |-> "CraftPlayer",
      fields |-> [name |-> Prim("Alex")]],
     [tag |-> "__handle__", handle |-> 7, type |-> "World",
      fields |-> [name |-> Prim("w")]],
     [tag |-> "__handle__", handle |-> 7, type |-> "Server"],
     [tag |-> "__handle__", handle |-> 7, type |-> "PlayerJoinEvent"]}

\* A proxy the script is handed: the result of a call (_deserialize), or
\* the event object a handler is called with.
Receive ==
    /\ CanOperate
    /\ proxy = NoProxy
    /\ \E raw \in HostObjects, cache \in Caches,
          as \in {"result", "event", "event with id"} :
          /\ as # "result" => ProxyFrom(raw, cache).cls = "Event"
          /\ proxy' = IF as = "result" THEN Deserialize(raw, cache)
                      ELSE IF as = "event"
                      THEN EventObject([event |-> raw], cache)
                      ELSE EventObject([event |-> raw, id |-> "3"], cache)
          /\ ops' = Op("receive", [raw |-> raw, as |-> as])
    /\ UNCHANGED <<boot, coVars, lockVars>>
    /\ Local

\* The class-level properties among the attribute names read below: what
\* the accessor does.  Server.name (342-344) returns the cached field or
\* makes a blocking call; Player.name (692-694), World.name (906-908),
\* Block.world (1226-1228) and Chunk.world (1251-1253) return
\* fields.get(...); Entity.world (461-463) and Player.world (743-745) make
\* a blocking call.  Any other name is left to __getattr__.
AttrNames == {"name", "world", "label"}
PropertyKind(cls, name) ==
    IF name = "name" /\ cls = "Server" THEN "cached or sync"
    ELSE IF name = "name" /\ cls \in {"Player", "World"} THEN "cached"
    ELSE IF name = "world" /\ cls \in {"Entity", "Player"} THEN "sync"
    ELSE IF name = "world" /\ cls \in {"Block", "Chunk"} THEN "cached"
    ELSE "getattr"

\* Python truthiness of a field's value.
TruthyValue(x) == IF x.kind = "prim" THEN Truthy(x.v) ELSE TRUE

\* Whether reading p.name ends in _call_sync.
BlocksNever(p, name) == FALSE
Blocks(p, name) ==
    \/ PropertyKind(p.cls, name) = "sync"
    \/ /\ PropertyKind(p.cls, name) = "cached or sync"
       /\ ~(name \in DOMAIN p.fields /\ TruthyValue(p.fields[name]))

\* What reading p.name evaluates to: a cached value, None, a BridgeMethod
\* (156-163), or the result of a blocking call.
ReadResult(p, name) ==
    IF Blocks(p, name) THEN [kind |-> "blocking"]
    ELSE IF name \in DOMAIN p.fields
    THEN [kind |-> "value", v |-> p.fields[name]]
    ELSE IF PropertyKind(p.cls, name) = "getattr"
    THEN [kind |-> "invoker", name |-> name]
    ELSE [kind |-> "value", v |-> Prim("None")]

\* Reading proxy.name: the class's property if it has one, else
\* ProxyBase.__getattr__ (209-212).  A blocking accessor enters call_sync.
GetAttr(name) ==
    /\ CanOperate
    /\ proxy # NoProxy
    /\ ops' = Op("read", [name |-> name, result |-> ReadResult(proxy, name)])
    /\ IF Blocks(proxy, name) THEN SyncAlloc("main") ELSE Local
    /\ UNCHANGED <<boot, proxy, coVars, lockVars>>

\* Calling the BridgeMethod the last read returned (162-163).
Invoke ==
    /\ CanOperate
    /\ ops.op = "read"
    /\ ops.rest.result.kind = "invoker"
    /\ ProxyCall(proxy, ops.rest.result.name, <<>>)
    /\ ops' = Op("invoke", [name |-> ops.rest.result.name])
    /\ UNCHANGED <<boot, proxy, coVars, lockVars>>

\* ProxyBase.__setattr__ (214-221).  A private name is set on the object
\* itself ("_note" stands for one that no method reads), fields replaces
\* the field cache, any other name goes to the host.
SetAttr(name, value) ==
    /\ CanOperate
    /\ proxy # NoProxy
    /\ IF name = "_note"
       THEN Local /\ proxy' = proxy
       ELSE IF name = "fields"
       THEN Local /\ proxy' = [proxy EXCEPT !.fields = value]
       ELSE IF ByRef(proxy)
       THEN /\ ConnectionCall("setAttr",
                              <<proxy.ref_type, proxy.ref_id, name,
                                Serialize(value)>>,
                              0, "ref", "None", NoValue)
            /\ proxy' = proxy
       ELSE /\ ConnectionCall("set_attr", <<>>, proxy.handle, "None", name,
                              Serialize(value))
            /\ proxy' = proxy
    /\ ops' = Op("write", [name |-> name, value |-> value])
    /\ UNCHANGED <<boot, coVars, lockVars>>

\* Event.cancel, line 238: fields.get("__event_id__") is not None.
CancelByFrameNever(p) == FALSE
CancelByFrame(p) ==
    /\ "__event_id__" \in DOMAIN p.fields
    /\ p.fields["__event_id__"] # Prim("None")

\* Event.cancel (236-242) with completed_call (2259-2262).
Cancel ==
    /\ CanOperate
    /\ proxy # NoProxy
    /\ proxy.cls = "Event"
    /\ IF CancelByFrame(proxy)
       THEN /\ wire' = Send(wire, [type |-> "event_cancel",
                                   id |-> proxy.fields["__event_id__"].v])
            /\ ops' = Op("cancel", [result |-> [kind |-> "completed"]])
            /\ UNCHANGED <<inbox, eof, answered, garbage>>
            /\ UNCHANGED <<callVars, readerVars, batchVars, releaseVars,
                           eventVars, sendVars, histVars>>
       ELSE /\ ProxyCall(proxy, "setCancelled", <<"True">>)
            /\ ops' = Op("cancel", [result |-> [kind |-> "call",
                                                id |-> id_counter]])
    /\ UNCHANGED <<boot, proxy, coVars, lockVars>>

\* The values sent through the codec: the proxy at hand, enum values and
\* UUIDs.
Samples ==
    (IF proxy = NoProxy THEN {} ELSE {proxy})
    \cup {EnumValue("org.bukkit.Material", "STONE"),
          EnumValue("org.bukkit.GameMode", "CREATIVE"),
          UuidOf("U-1")}

\* _deserialize(_serialize(v)).
RoundTrip ==
    /\ CanOperate
    /\ \E v \in Samples, cache \in Caches :
          ops' = Op("roundtrip",
                    [v |-> v, enc |-> Serialize(v),
                     dec |-> Deserialize(Serialize(v), cache)])
    /\ UNCHANGED <<boot, proxy, coVars, lockVars>>
    /\ Local

\* ------------------------------------------------------- send, write by write
\* The frames sender s has started to write.
HeadersBy(s) ==
    Cardinality({i \in 1..Len(stream) :
                    stream[i].part = "header" /\ stream[i].by = s})

\* threading.Lock: __enter__ returns only while no thread holds the lock.
CanAcquireHeld(l) == TRUE
CanAcquire(l) == l = "none"

\* send (2232): with self._lock.
SendAcquire(s) ==
    /\ spc[s] = "idle"
    /\ HeadersBy(s) < MaxSends
    /\ CanAcquire(lock)
    /\ lock' = s
    /\ spc' = [spc EXCEPT ![s] = "locked"]
    /\ UNCHANGED stream
    /\ UNCHANGED <<callVars, netVars, readerVars, batchVars, releaseVars,
                   eventVars, histVars>>
    /\ UNCHANGED <<apiVars, coVars, lockVars>>

\* send (2233): self._file.write(header).
SendHeader(s) ==
    /\ spc[s] = "locked"
    /\ stream' = Append(stream, [part |-> "header", by |-> s,
                                 k |-> HeadersBy(s) + 1])
    /\ spc' = [spc EXCEPT ![s] = "header"]
    /\ UNCHANGED lock
    /\ UNCHANGED <<callVars, netVars, readerVars, batchVars, releaseVars,
                   eventVars, histVars>>
    /\ UNCHANGED <<apiVars, coVars, lockVars>>

\* send (2234): self._file.write(data).
SendData(s) ==
    /\ spc[s] = "header"
    /\ stream' = Append(stream, [part |-> "data", by |-> s,
                                 k |-> HeadersBy(s)])
    /\ spc' = [spc EXCEPT ![s] = "data"]
    /\ UNCHANGED lock
    /\ UNCHANGED <<callVars, netVars, readerVars, batchVars, releaseVars,
                   eventVars, histVars>>
    /\ UNCHANGED <<apiVars, coVars, lockVars>>

\* send (2235 and the end of the with block): flush, release the lock.
SendRelease(s) ==
    /\ spc[s] = "data"
    /\ lock' = "none"
    /\ spc' = [spc EXCEPT ![s] = "idle"]
    /\ UNCHANGED stream
    /\ UNCHANGED <<callVars, netVars, readerVars, batchVars, releaseVars,
                   eventVars, histVars>>
    /\ UNCHANGED <<apiVars, coVars, lockVars>>

\* ------------------------------------------------- a proxy held and dropped
\* The script receives a proxy bound to a handle the host has not used
\* before (_proxy_from 3538-3598 ends in a constructor call with the handle).
Obtain ==
    /\ LoopFree
    /\ proxy = NoProxy
    /\ next_handle <= MaxProxies
    /\ proxy' = ProxyBaseInit("ProxyBase", next_handle, NoFields, "None",
                              "None", NoId)
    /\ UNCHANGED <<boot, ops, coVars, lockVars>>
    /\ Local

\* A remote method is called on the proxy the script holds (_call 194-199).
CallOn ==
    /\ proxy # NoProxy
    /\ ProxyCall(proxy, "m", <<>>)
    /\ UNCHANGED <<apiVars, coVars, lockVars>>

\* ProxyBase.__del__ (187-193): the script drops its last reference; a proxy
\* with a handle queues the handle's release.
Discard ==
    /\ LoopFree
    /\ proxy # NoProxy
    /\ IF proxy.handle # 0
       THEN QueueHandle(proxy.handle)
       ELSE UNCHANGED <<callVars, netVars, readerVars, batchVars, eventVars,
                        sendVars, histVars, release_queue>>
    /\ next_handle' = next_handle + 1
    /\ proxy' = NoProxy
    /\ UNCHANGED <<boot, ops, coVars, lockVars>>

\* ------------------------------------------ batch scopes of two coroutines
\* The connection keeps one _batch_stack, one _batch_messages and one
\* _batch_futures (2108-2110) for all coroutines of the scheduler.  A
\* coroutine runs its steps one at a time and may be suspended between any
\* two of them (an await inside its async with block).

\* Coroutine c enters "async with frame()" or "async with atomic()".
CoEnter(c, mode) ==
    /\ EnterScope(mode)
    /\ co' = [co EXCEPT !.depth[c] = @ + 1, !.owners = Append(@, c)]
    /\ UNCHANGED <<apiVars, lockVars>>

\* Coroutine c issues a non-blocking call.
CoCall(c) ==
    /\ ConnectionCall("m", <<>>, 0, "None", "None", NoValue)
    /\ co' = [co EXCEPT !.free = IF co.depth[c] = 0
                                 THEN @ \cup {id_counter} ELSE @]
    /\ UNCHANGED <<apiVars, lockVars>>

\* Coroutine c leaves the scope it is in: _end_batch pops the top of the one
\* stack (2199-2201), whoever pushed it, then flush runs.
CoLeave(c) ==
    /\ co.depth[c] > 0
    /\ LeaveScope
    /\ co' = [co EXCEPT
                !.depth[c] = @ - 1,
                !.owners = SubSeq(@, 1, Len(@) - 1),
                !.left = Append(@, [by |-> c,
                                    owner |-> co.owners[Len(co.owners)]])]
    /\ UNCHANGED <<apiVars, lockVars>>

\* ------------------------------------ the release queue, statement by statement
\* Each thread has a stack of activations of _queue_release, _flush_releases
\* and send; only the innermost one runs.  pc is the statement it is at,
\* handle the argument of _queue_release, handles the local of
\* _flush_releases_locked (and the payload of the send it makes).
Top(t) == frames[t][Len(frames[t])]
SetTop(t, f) == [frames EXCEPT ![t] = [@ EXCEPT ![Len(@)] = f]]
Push(t, f) == [frames EXCEPT ![t] = Append(@, f)]
Pop(t) == [frames EXCEPT ![t] = SubSeq(@, 1, Len(@) - 1)]

\* What the steps below leave alone.
OutsideLocks ==
    UNCHANGED <<callVars, inbox, eof, answered, garbage, readerVars,
                batchVars, eventVars, stream, spc, histVars, apiVars, coVars>>

\* threading.Lock (2113): "with self._release_lock" enters only while no
\* thread, the entering one included, holds the lock.
ReleaseLockFreeAlways(l) == TRUE
ReleaseLockFree(l) == l = "none"

\* ProxyBase.__del__ (187-193) runs on thread t and calls _queue_release: the
\* collector may run a finalizer on whichever thread is executing, on top of
\* what that thread is doing.
Finalize(t) ==
    /\ next_handle <= MaxProxies
    /\ Len(frames[t]) < MaxNesting
    /\ frames' = Push(t, [fn |-> "queue_release", pc |-> "acquire",
                          handle |-> next_handle, handles |-> <<>>])
    /\ next_handle' = next_handle + 1
    /\ UNCHANGED <<wire, release_queue, lock, release_lock, appended>>
    /\ OutsideLocks

\* call() begins with _flush_releases() (2134).
BeginFlush(t) ==
    /\ frames[t] = <<>>
    /\ frames' = Push(t, [fn |-> "flush_releases", pc |-> "acquire",
                          handle |-> 0, handles |-> <<>>])
    /\ UNCHANGED <<wire, release_queue, next_handle, lock, release_lock,
                   appended>>
    /\ OutsideLocks

\* with self._release_lock (2238, 2256).
AcquireRelease(t) ==
    /\ frames[t] # <<>>
    /\ Top(t).fn \in {"queue_release", "flush_releases"}
    /\ Top(t).pc = "acquire"
    /\ ReleaseLockFree(release_lock)
    /\ release_lock' = t
    /\ frames' = SetTop(t, [Top(t) EXCEPT !.pc =
                               IF Top(t).fn = "queue_release"
                               THEN "append" ELSE "locked"])
    /\ UNCHANGED <<wire, release_queue, next_handle, lock, appended>>
    /\ OutsideLocks

\* _queue_release (2239-2240): append, then test the length.
AppendHandle(t) ==
    /\ frames[t] # <<>>
    /\ Top(t).fn = "queue_release"
    /\ Top(t).pc = "append"
    /\ release_queue' = Append(release_queue, Top(t).handle)
    /\ appended' = Append(appended, Top(t).handle)
    /\ frames' = SetTop(t, [Top(t) EXCEPT !.pc =
                               IF FlushDue(release_queue')
                               THEN "locked" ELSE "unlock"])
    /\ UNCHANGED <<wire, next_handle, lock, release_lock>>
    /\ OutsideLocks

\* _flush_releases_locked (2245-2247): return if the queue is empty, else
\* handles = self._release_queue[:].
TakeHandles(t) ==
    /\ frames[t] # <<>>
    /\ Top(t).fn \in {"queue_release", "flush_releases"}
    /\ Top(t).pc = "locked"
    /\ frames' = SetTop(t, IF release_queue = <<>>
                           THEN [Top(t) EXCEPT !.pc = "unlock"]
                           ELSE [Top(t) EXCEPT !.pc = "copied",
                                               !.handles = release_queue])
    /\ UNCHANGED <<wire, release_queue, next_handle, lock, release_lock,
                   appended>>
    /\ OutsideLocks

\* _flush_releases_locked (2248): self._release_queue.clear().
ClearQueue(t) ==
    /\ frames[t] # <<>>
    /\ Top(t).fn \in {"queue_release", "flush_releases"}
    /\ Top(t).pc = "copied"
    /\ release_queue' = <<>>
    /\ frames' = SetTop(t, [Top(t) EXCEPT !.pc = "send"])
    /\ UNCHANGED <<wire, next_handle, lock, release_lock, appended>>
    /\ OutsideLocks

\* _flush_releases_locked (2250): self.send({"type": "release", ...}); the
\* caller resumes at the end of its with block.
CallSend(t) ==
    /\ frames[t] # <<>>
    /\ Top(t).fn \in {"queue_release", "flush_releases"}
    /\ Top(t).pc = "send"
    /\ frames' = [frames EXCEPT ![t] =
                     Append([@ EXCEPT ![Len(@)].pc = "unlock"],
                            [fn |-> "send", pc |-> "acquire", handle |-> 0,
                             handles |-> Top(t).handles])]
    /\ UNCHANGED <<wire, release_queue, next_handle, lock, release_lock,
                   appended>>
    /\ OutsideLocks

\* send (2232): with self._lock.
SendLock(t) ==
    /\ frames[t] # <<>>
    /\ Top(t).fn = "send"
    /\ Top(t).pc = "acquire"
    /\ CanAcquire(lock)
    /\ lock' = t
    /\ frames' = SetTop(t, [Top(t) EXCEPT !.pc = "write"])
    /\ UNCHANGED <<wire, release_queue, next_handle, release_lock, appended>>
    /\ OutsideLocks

\* send (2233-2235): the release frame is written.
SendWrite(t) ==
    /\ frames[t] # <<>>
    /\ Top(t).fn = "send"
    /\ Top(t).pc = "write"
    /\ wire' = Send(wire, [type |-> "release", handles |-> Top(t).handles])
    /\ frames' = SetTop(t, [Top(t) EXCEPT !.pc = "release"])
    /\ UNCHANGED <<release_queue, next_handle, lock, release_lock, appended>>
    /\ OutsideLocks

\* send: the with block ends, send returns.
SendUnlock(t) ==
    /\ frames[t] # <<>>
    /\ Top(t).fn = "send"
    /\ Top(t).pc = "release"
    /\ lock' = "none"
    /\ frames' = Pop(t)
    /\ UNCHANGED <<wire, release_queue, next_handle, release_lock, appended>>
    /\ OutsideLocks

\* The end of "with self._release_lock" (2241, 2257): the lock is released
\* and _queue_release or _flush_releases returns.
ReleaseUnlock(t) ==
    /\ frames[t] # <<>>
    /\ Top(t).fn \in {"queue_release", "flush_releases"}
    /\ Top(t).pc = "unlock"
    /\ release_lock' = "none"
    /\ frames' = Pop(t)
    /\ UNCHANGED <<wire, release_queue, next_handle, lock, appended>>
    /\ OutsideLocks

\* ----------------------------------------------------------- specifications
\* The request registry: both calling conventions, the host's answers, the
\* reader thread and the scheduler.
Next ==
    \/ Call
    \/ Wait
    \/ \E t \in Threads : CallSyncAlloc(t)
    \/ \E t \in Threads : CallSyncRegister(t)
    \/ \E t \in Threads : CallSyncSend(t)
    \/ \E t \in Threads : CallSyncReturn(t)
    \/ HostReply
    \/ HostGarbage
    \/ HostClose
    \/ ReaderFrame
    \/ ReaderEOF
    \/ ReaderSnapshot
    \/ ReaderWake
    \/ ReaderClear
    \/ ReaderPost
    \/ HandleMessage
    \/ HandleReaderError

Spec == Init /\ [][Next]_vars

\* The batch manager.
NextBatch ==
    \/ \E mode \in Modes : BeginBatch(mode)
    \/ ExitBatch
    \/ ExitBatchRaised
    \/ Flush
    \/ Call
    \/ Wait

SpecBatch == Init /\ [][NextBatch]_vars

\* Frame batches with the host's answers: flush to completion.
NextFlush ==
    \/ BeginBatch("frame")
    \/ ExitBatch
    \/ Flush
    \/ Call
    \/ HostReply
    \/ ReaderFrame
    \/ HandleMessage
    \/ FlushDone

SpecFlush == Init /\ [][NextFlush]_vars

\* The handle release queue and the calls that flush it.
NextRelease ==
    \/ QueueRelease
    \/ Call
    \/ Wait
    \/ \E t \in Threads : CallSyncAlloc(t)
    \/ \E t \in Threads : CallSyncRegister(t)
    \/ \E t \in Threads : CallSyncSend(t)

SpecRelease == Init /\ [][NextRelease]_vars

\* The event dispatcher.
NextEvent ==
    \/ \E name \in EventNames, h \in HandlerKinds : On(name, h)
    \/ HostEvent
    \/ ReaderFrame
    \/ HandleEvent
    \/ DispatchEvent
    \/ DispatchGathered

SpecEvent == Init /\ [][NextEvent]_vars

\* The event dispatcher with handlers registered for one event name only;
\* events of both names arrive.
NextDispatch ==
    \/ \E h \in HandlerKinds : On("hurt", h)
    \/ HostEvent
    \/ ReaderFrame
    \/ HandleEvent
    \/ DispatchEvent
    \/ DispatchGathered

SpecDispatch == Init /\ [][NextDispatch]_vars

\* From the constructor's first line to the ready frame: _prime_player_cache
\* reads server.players with a blocking call, then the script subscribes,
\* registers commands, reads properties with blocking calls and discards
\* proxies.
NextBoot ==
    \/ ConnectAuth
    \/ StartReader
    \/ Connected /\ CallSyncAlloc("main")
    \/ CallSyncRegister("main")
    \/ CallSyncSend("main")
    \/ CallSyncReturn("main")
    \/ HostReply
    \/ ReaderFrame
    \/ RunScript
    \/ Subscribe
    \/ RegisterCommand
    \/ boot = "script" /\ QueueRelease
    \/ Ready

SpecBoot == InitBoot /\ [][NextBoot]_vars

\* The reader thread next to the scheduler: async calls, events, and the
\* loss of the connection.
NextReader ==
    \/ Call
    \/ HostReply
    \/ HostEvent
    \/ HostClose
    \/ ReaderFrame
    \/ ReaderEOF
    \/ ReaderSnapshot
    \/ ReaderWake
    \/ ReaderClear
    \/ ReaderPost
    \/ HandleMessage
    \/ HandleEvent
    \/ HandleReaderError
    \/ DispatchEvent

SpecReader == Init /\ [][NextReader]_vars

\* A script working on one proxy: it constructs or receives it, reads and
\* writes its attributes, calls it, cancels it, and sends values through
\* the codec, while the host answers.
NextProxy ==
    \/ ConstructProxyBase
    \/ ConstructEntity
    \/ ConstructPlayer
    \/ ConstructWorld
    \/ ConstructBlock
    \/ ConstructChunk
    \/ Receive
    \/ \E name \in AttrNames : GetAttr(name)
    \/ Invoke
    \/ SetAttr("label", Prim("v"))
    \/ SetAttr("name", Prim("v"))
    \/ SetAttr("_note", Prim("v"))
    \/ SetAttr("fields", [name |-> Prim("new")])
    \/ Cancel
    \/ RoundTrip
    \/ CallSyncRegister("main")
    \/ CallSyncSend("main")
    \/ CallSyncReturn("main")
    \/ HostReply
    \/ ReaderFrame
    \/ HandleMessage

SpecProxy == Init /\ [][NextProxy]_vars

\* Batched events.
NextEventBatch ==
    \/ HostEventBatch
    \/ ReaderFrame
    \/ HandleEventBatch
    \/ DispatchEvent

SpecEventBatch == Init /\ [][NextEventBatch]_vars

\* The host's shutdown announcement and the shutdown handlers.
NextShutdown ==
    \/ \E h \in HandlerKinds : On("shutdown", h)
    \/ HostShutdown
    \/ ReaderFrame
    \/ HandleShutdownFrame
    \/ HandleShutdown
    \/ DispatchGathered

SpecShutdown == Init /\ [][NextShutdown]_vars

\* send, run by several threads at once.
NextSend ==
    \/ \E s \in Senders : SendAcquire(s)
    \/ \E s \in Senders : SendHeader(s)
    \/ \E s \in Senders : SendData(s)
    \/ \E s \in Senders : SendRelease(s)

SpecSend == Init /\ [][NextSend]_vars

\* Proxies bound to handles: calls on them, inside and outside batch scopes,
\* and their release when they are dropped.
NextHandle ==
    \/ Obtain
    \/ CallOn
    \/ Discard
    \/ \E mode \in Modes : BeginBatch(mode)
    \/ ExitBatch

SpecHandle == Init /\ [][NextHandle]_vars

\* The reader thread has run to its end (2308-2316): the connection is lost.
Lost == reader = "done"

\* Calls issued after the connection was lost: the host closes the stream,
\* the reader thread runs its finally block and ends, and only then do the
\* threads issue calls of both conventions.
NextLate ==
    \/ HostClose
    \/ ReaderEOF
    \/ ReaderSnapshot
    \/ ReaderWake
    \/ ReaderClear
    \/ ReaderPost
    \/ HandleReaderError
    \/ Lost /\ Call
    \/ Lost /\ Wait
    \/ \E t \in Threads : Lost /\ CallSyncAlloc(t)
    \/ \E t \in Threads : CallSyncRegister(t)
    \/ \E t \in Threads : CallSyncSend(t)

SpecLate == Init /\ [][NextLate]_vars

\* Issuing requests: both conventions and wait, inside and outside a frame
\* scope, with the host answering what it has seen.
NextIssue ==
    \/ Call
    \/ Wait
    \/ \E t \in Threads : CallSyncAlloc(t)
    \/ \E t \in Threads : CallSyncRegister(t)
    \/ \E t \in Threads : CallSyncSend(t)
    \/ \E t \in Threads : CallSyncReturn(t)
    \/ BeginBatch("frame")
    \/ ExitBatch
    \/ HostReply
    \/ ReaderFrame
    \/ HandleMessage

SpecIssue == Init /\ [][NextIssue]_vars

\* Frames nobody waits for, next to calls of both conventions and their
\* answers.
NextStray ==
    \/ Call
    \/ CallSyncAlloc("worker")
    \/ CallSyncRegister("worker")
    \/ CallSyncSend("worker")
    \/ CallSyncReturn("worker")
    \/ HostReply
    \/ HostStray
    \/ ReaderFrame
    \/ HandleMessage

SpecStray == Init /\ [][NextStray]_vars

\* Two coroutines of one scheduler using batch scopes and calls.
NextCo ==
    \/ \E c \in Coroutines, mode \in Modes : CoEnter(c, mode)
    \/ \E c \in Coroutines : CoCall(c)
    \/ \E c \in Coroutines : CoLeave(c)

SpecCo == Init /\ [][NextCo]_vars

\* Threads that queue releases and threads that flush the queue; a finalizer
\* runs on a thread that is doing nothing else.
NextQueue ==
    \/ \E t \in Threads : frames[t] = <<>> /\ Finalize(t)
    \/ \E t \in Threads : BeginFlush(t)
    \/ \E t \in Threads : AcquireRelease(t)
    \/ \E t \in Threads : AppendHandle(t)
    \/ \E t \in Threads : TakeHandles(t)
    \/ \E t \in Threads : ClearQueue(t)
    \/ \E t \in Threads : CallSend(t)
    \/ \E t \in Threads : SendLock(t)
    \/ \E t \in Threads : SendWrite(t)
    \/ \E t \in Threads : SendUnlock(t)
    \/ \E t \in Threads : ReleaseUnlock(t)

SpecQueue == Init /\ [][NextQueue]_vars

\* The same with finalizers that run on top of whatever their thread is
\* doing.
NextReentrant ==
    \/ \E t \in Threads : Finalize(t)
    \/ \E t \in Threads : BeginFlush(t)
    \/ \E t \in Threads : AcquireRelease(t)
    \/ \E t \in Threads : AppendHandle(t)
    \/ \E t \in Threads : TakeHandles(t)
    \/ \E t \in Threads : ClearQueue(t)
    \/ \E t \in Threads : CallSend(t)
    \/ \E t \in Threads : SendLock(t)
    \/ \E t \in Threads : SendWrite(t)
    \/ \E t \in Threads : SendUnlock(t)
    \/ \E t \in Threads : ReleaseUnlock(t)

SpecReentrant == Init /\ [][NextReentrant]_vars

\* =================================================================== claims

\* C1: with any number of outstanding calls of both conventions and any
\* arrival order of the host's frames, a call is never resolved from a frame
\* that carries another request id: whatever was stored in a blocking
\* waiter or in a future came from the frame with the call's own id (src 0:
\* no frame, the connection was lost).
C1_OwnResult ==
    \A i \in Ids : syncwait[i].src \in {0, i} /\ future[i].src \in {0, i}

\* Two calls of different conventions are outstanding and the later one is
\* answered first: it holds its own frame's outcome while the earlier one is
\* still registered and parked.
C1_Witness ==
    \E i, j \in Ids :
        /\ i < j
        /\ i \in pending_sync /\ syncwait[i].st = "pending"
        /\ \E t \in Threads : pc[t] = "parked" /\ cur[t] = i
        /\ future[j].st \in {"result", "error"} /\ future[j].src = j

\* C2: when the reader loop has ended by end of stream and its finally block
\* has woken and cleared the blocking registry, every blocking call that
\* was registered by then has been failed, exactly once, whatever the
\* interleaving with the registering threads.
C2_AllFailedOnce ==
    (reader = "post" /\ ended = "eof") =>
        \A t \in Threads :
            pc[t] \in {"registered", "parked"} =>
                /\ syncwait[cur[t]].st # "pending"
                /\ syncwait[cur[t]].n = 1

\* C3: the call_batch frame written when a scope is left normally is tagged
\* with the effective mode of the scope that was left: atomic exactly when
\* an atomic scope was open at that moment.
C3_ExitTag ==
    \A k \in 1..Len(exits) :
        exits[k].frame # 0 =>
            wire[exits[k].frame].atomic = ("atomic" \in Range(exits[k].stack))

\* C4: dispatching an event that carries an event id while no handler is
\* registered for its name writes nothing: no event_result and no event_done.
C4_NoAckWithoutHandlers ==
    [][(/\ loopq # <<>>
        /\ Head(loopq).cb = "dispatch_event"
        /\ loopq' = Tail(loopq)
        /\ Head(loopq).ev.eid # 0
        /\ handlers[Head(loopq).ev.event] = <<>>)
       => wire' = wire]_vars

\* C5: after a frame that does not decode, once the reader has ended and the
\* scheduler has run what was posted, every call the termination failed
\* carries the connection-lost error, and no call whose id was taken out of
\* its registry is left unresolved.
C5_FatalDecode ==
    (reader = "done" /\ ended = "error" /\ loopq = <<>>) =>
        /\ \A i \in Ids :
              (future[i].st = "error" /\ future[i].src = 0) =>
                  future[i].err = "ConnectionLost"
        /\ \A i \in Ids :
              (syncwait[i].st = "error" /\ syncwait[i].src = 0) =>
                  syncwait[i].err = "ConnectionLost"
        /\ \A t \in Threads :
              (pc[t] = "parked" /\ cur[t] \notin pending_sync) =>
                  syncwait[cur[t]].st # "pending"

\* C6: the queue never holds 64 entries between operations; _queue_release
\* allocates no request id and writes one release frame with all 64 handles
\* exactly when its append makes the queue 64 long, and nothing otherwise;
\* and a release frame is written only by such a step or by a step that
\* issues a call.
C6_ThresholdFlush ==
    /\ [](Len(release_queue) < ReleaseThreshold)
    /\ [][(next_handle' # next_handle =>
              /\ id_counter' = id_counter
              /\ IF Len(release_queue) + 1 = ReleaseThreshold
                 THEN /\ release_queue' = <<>>
                      /\ wire' = Append(wire,
                            [type |-> "release",
                             handles |-> Append(release_queue, next_handle)])
                 ELSE /\ release_queue' = Append(release_queue, next_handle)
                      /\ wire' = wire)
          /\ ((\E k \in (Len(wire) + 1)..Len(wire') : wire'[k].type = "release")
              => \/ (next_handle' # next_handle
                     /\ Len(release_queue) + 1 = ReleaseThreshold)
                 \/ id_counter' # id_counter)]_vars

\* The 64th release has been queued with no call ever issued: one release
\* frame with 64 handles is on the wire and the queue is empty again.
C6_Witness ==
    /\ id_counter = 1
    /\ release_queue = <<>>
    /\ \E k \in 1..Len(wire) :
          wire[k].type = "release" /\ Len(wire[k].handles) = ReleaseThreshold

\* C7: every step that writes a call message while releases are queued, by
\* either convention, writes one release frame with the whole queue right
\* before the call message and leaves the queue empty.
C7_FlushBeforeEveryCall ==
    [][(/\ Len(wire') > Len(wire)
        /\ wire'[Len(wire')].type = "call"
        /\ release_queue # <<>>)
       => /\ release_queue' = <<>>
          /\ wire' = wire \o <<[type |-> "release", handles |-> release_queue],
                               wire'[Len(wire')]>>]_vars

\* C8: when the reader takes a return or error frame off the stream whose id
\* is registered by a blocking call, that very step signals the waiter, and
\* nothing is handed to the scheduler.
C8_ReaderUnparks ==
    [][(/\ reader = "run"
        /\ inbox # <<>>
        /\ inbox' = Tail(inbox)
        /\ Head(inbox).type \in {"return", "error"}
        /\ Head(inbox).id \in pending_sync)
       => /\ syncwait'[Head(inbox).id].st # "pending"
          /\ loopq' = loopq]_vars

\* C9: ids are strictly increasing in allocation order across call,
\* call_sync and wait, so none is allocated twice, and no id is in both
\* registries.
C9_IdSpace ==
    /\ \A a, b \in 1..Len(alloc) : a < b => alloc[a][1] < alloc[b][1]
    /\ pending \cap pending_sync = {}

\* Ids allocated by two different conventions, one registered in each
\* registry at the same time.
C9_Witness ==
    /\ pending # {}
    /\ pending_sync # {}
    /\ \E a, b \in 1..Len(alloc) : alloc[a][2] # alloc[b][2]

\* C10: once the reader loop has terminated and the scheduler has run what
\* the reader posted, an id that is still in a registry belongs to a call
\* that is not resolved yet: every resolved call has been retired.
C10_Retired ==
    (reader = "done" /\ loopq = <<>>) =>
        \A i \in Ids :
            /\ i \in pending => future[i].st = "pending"
            /\ i \in pending_sync => syncwait[i].st = "pending"

\* C11: an error frame reaches the caller as the same exception in both
\* calling conventions: when the reader consumes an error frame whose id is
\* a parked blocking call, and when the scheduler handles an error frame
\* whose id is a registered future, the slot of that id is failed with
\* EntityGone if the frame's code is ENTITY_GONE and with a plain
\* BridgeError for any other code.
C11_SameError ==
    [][/\ (/\ reader = "run"
           /\ inbox # <<>>
           /\ inbox' = Tail(inbox)
           /\ Head(inbox).type = "error"
           /\ Head(inbox).id \in pending_sync)
          => LET m == Head(inbox)
             IN  /\ syncwait'[m.id].st = "error"
                 /\ syncwait'[m.id].src = m.id
                 /\ (m.code = "ENTITY_GONE") <=> (syncwait'[m.id].err = "EntityGone")
                 /\ (m.code # "ENTITY_GONE") <=> (syncwait'[m.id].err = "BridgeError")
       /\ (/\ loopq # <<>>
           /\ loopq' = Tail(loopq)
           /\ Head(loopq).cb = "handle_message"
           /\ Head(loopq).msg.type = "error"
           /\ Head(loopq).msg.id \in pending)
          => LET m == Head(loopq).msg
             IN  /\ future'[m.id].st = "error"
                 /\ future'[m.id].src = m.id
                 /\ (m.code = "ENTITY_GONE") <=> (future'[m.id].err = "EntityGone")
                 /\ (m.code # "ENTITY_GONE") <=> (future'[m.id].err = "BridgeError")
      ]_vars

\* A blocking call failed with EntityGone and a future failed with a plain
\* BridgeError, each from the error frame of its own id.
C11_Witness ==
    \E i, j \in Ids :
        /\ syncwait[i].st = "error" /\ syncwait[i].src = i
        /\ future[j].st = "error" /\ future[j].src = j
        /\ syncwait[i].err = "EntityGone"
        /\ future[j].err = "BridgeError"

\* C12: whatever the senders' interleaving, the stream is a sequence of
\* whole frames: every length prefix is followed at once by the payload of
\* the same frame of the same sender (or is the last chunk written so far),
\* and every payload directly follows its own length prefix.
C12_WholeFrames ==
    \A i \in 1..Len(stream) :
        /\ stream[i].part = "header"
           => \/ i = Len(stream)
              \/ stream[i + 1] = [stream[i] EXCEPT !.part = "data"]
        /\ stream[i].part = "data"
           => /\ i > 1
              /\ stream[i - 1] = [stream[i] EXCEPT !.part = "header"]

\* One sender is between its two writes while another sender, which has
\* already written a frame, is ready to send its next one.
C12_Witness ==
    \E s, t \in Senders :
        /\ s # t
        /\ spc[s] = "header"
        /\ spc[t] = "idle"
        /\ HeadersBy(t) \in 1..(MaxSends - 1)

\* C13: a call issued while a batch scope is open is appended to the end of
\* the buffer (message and future), no call or call_batch frame is written
\* by the call, and the future it returns is registered and unresolved.
C13_Buffered ==
    [][(/\ Len(alloc') = Len(alloc) + 1
        /\ alloc'[Len(alloc')][2] = "call"
        /\ batch_stack # <<>>)
       => LET id == alloc'[Len(alloc')][1]
          IN  /\ batch_messages' = Append(batch_messages,
                                          [type |-> "call", id |-> id])
              /\ batch_futures' = Append(batch_futures, id)
              /\ \A i \in 1..Len(wire') :
                    wire'[i].type \in {"call", "call_batch"} => i <= Len(wire)
              /\ id \in pending'
              /\ future'[id].st = "pending"
      ]_vars

\* Two calls buffered in issue order inside an open scope, neither on the
\* wire, both futures unresolved.
C13_Witness ==
    /\ batch_stack # <<>>
    /\ Len(batch_messages) >= 2
    /\ \A i \in 1..Len(batch_messages) :
          /\ batch_messages[i].id = batch_futures[i]
          /\ future[batch_futures[i]].st = "pending"
    /\ batch_messages[1].id < batch_messages[2].id
    /\ \A i \in 1..Len(wire) : wire[i].type # "call_batch"

\* The ids carried by the call_batch frames of a wire, in wire order.
RECURSIVE BatchedIds(_)
BatchedIds(w) ==
    IF w = <<>> THEN <<>>
    ELSE (IF Head(w).type = "call_batch"
          THEN [k \in 1..Len(Head(w).messages) |-> Head(w).messages[k].id]
          ELSE <<>>) \o BatchedIds(Tail(w))

\* The ids of the calls issued while a scope was open, in issue order.
RECURSIVE IssuedInScope(_)
IssuedInScope(a) ==
    IF a = <<>> THEN <<>>
    ELSE (IF Head(a)[2] = "call" /\ Head(a)[3] > 0 THEN <<Head(a)[1]>> ELSE <<>>)
         \o IssuedInScope(Tail(a))

\* The call_batch frames of the wire, in wire order.
BatchFrames == SelectSeq(wire, LAMBDA m : m.type = "call_batch")

\* C14: every flush of a frame batch puts exactly one call_batch frame on the
\* wire, carrying all the calls that were buffered, as call messages in
\* issue order; over the whole run the calls issued inside scopes are, in
\* issue order and each exactly once, the contents of the call_batch frames
\* followed by the buffer, none of them is written as a frame of its own,
\* and this stays so whatever the host answers to each of them.
C14_OneFrame ==
    /\ Len(BatchFrames) = Len(flushes)
    /\ \A k \in 1..Len(BatchFrames) :
          /\ ~BatchFrames[k].atomic
          /\ Len(BatchFrames[k].messages) = Len(flushes[k].futures)
          /\ \A i \in 1..Len(BatchFrames[k].messages) :
                BatchFrames[k].messages[i] =
                    [type |-> "call", id |-> flushes[k].futures[i]]
    /\ BatchedIds(wire) \o batch_futures = IssuedInScope(alloc)
    /\ \A i \in 1..Len(wire) :
          wire[i].type = "call" => wire[i].id \notin Range(IssuedInScope(alloc))

\* A frame batch of two calls went out as one call_batch frame; the first
\* call has failed and the second has succeeded.
C14_Witness ==
    \E k \in 1..Len(BatchFrames) :
        /\ Len(BatchFrames[k].messages) = 2
        /\ future[BatchFrames[k].messages[1].id].st = "error"
        /\ future[BatchFrames[k].messages[2].id].st = "result"

\* The number of scopes that were open when call id was issued.
IssueDepth(id) ==
    alloc[CHOOSE a \in 1..Len(alloc) : alloc[a][1] = id][3]

\* C15: a call issued inside a frame() scope is not sent before that scope
\* is left: when a scope's exit writes a call_batch frame (and no scope
\* before it was left by an exception, so that everything in the buffer was
\* issued under the scopes now open), every call in the frame that was
\* issued inside a frame() scope was issued inside the scope being left,
\* not inside one that stays open around it.
C15_NotBeforeExit ==
    [][(/\ batch_stack # <<>>
        /\ batch_stack' = StackAtFlush(batch_stack)
        /\ Len(wire') = Len(wire) + 1
        /\ wire'[Len(wire')].type = "call_batch"
        /\ \A e \in 1..Len(exits) : ~exits[e].raised)
       => \A i \in 1..Len(wire'[Len(wire')].messages) :
             LET d == IssueDepth(wire'[Len(wire')].messages[i].id)
             IN  batch_stack[d] = "frame" => d = Len(batch_stack)
      ]_vars

\* C16: the effective batch mode depends on the scope stack alone: none with
\* no open scope, atomic when some open scope, at whatever depth, is atomic,
\* frame when scopes are open and none of them is atomic.
C16_ModeOfStack ==
    /\ Len(batch_stack) = 0 => CurrentBatchMode(batch_stack) = "none"
    /\ (\E i \in 1..Len(batch_stack) : batch_stack[i] = "atomic")
          => CurrentBatchMode(batch_stack) = "atomic"
    /\ (/\ Len(batch_stack) > 0
        /\ \A i \in 1..Len(batch_stack) : batch_stack[i] = "frame")
          => CurrentBatchMode(batch_stack) = "frame"

\* A frame scope is open inside an atomic scope: the atomic scope is not the
\* innermost one.
C16_Witness ==
    /\ Len(batch_stack) >= 2
    /\ batch_stack[1] = "atomic"
    /\ batch_stack[Len(batch_stack)] = "frame"

\* C17: a flush that has completed has all the futures it took from the
\* buffer in a terminal state; it returned normally only if every one of
\* them succeeded, and otherwise it raised the exception of the first
\* failed future in buffer order.
C17_FlushAwaitsAll ==
    \A k \in 1..Len(flushes) :
        LET f == flushes[k]
        IN  /\ f.out # "waiting"
               => \A i \in 1..Len(f.futures) :
                     future[f.futures[i]].st \in {"result", "error"}
            /\ f.out = "returned"
               <=> /\ f.out # "waiting"
                   /\ \A i \in 1..Len(f.futures) :
                         future[f.futures[i]].st = "result"
            /\ f.out = "raised"
               => \E i \in 1..Len(f.futures) :
                     /\ f.exc = f.futures[i]
                     /\ future[f.futures[i]].st = "error"
                     /\ \A j \in 1..(i - 1) : future[f.futures[j]].st = "result"

\* A flush of two calls raised the second call's failure after the first
\* call had succeeded.
C17_Witness ==
    \E k \in 1..Len(flushes) :
        /\ Len(flushes[k].futures) = 2
        /\ flushes[k].out = "raised"
        /\ flushes[k].exc = flushes[k].futures[2]
        /\ future[flushes[k].futures[1]].st = "result"

\* The frames about event eid that are on the wire, in wire order.
EventFrames(eid) ==
    SelectSeq(wire, LAMBDA m : /\ m.type \in {"event_result", "event_done"}
                               /\ m.id = eid)

\* How many of the handlers hs end with outcome r.
Ending(hs, r) == Cardinality({i \in 1..Len(hs) : hs[i].res = r})

\* C18: a dispatch that has finished has called every handler registered
\* for the event once and collected one result per handler, the result or
\* the exception that handler ends with, whichever handlers failed; an
\* override on the wire comes from a handler that did not fail, so an event
\* all of whose handlers failed has no event_result.
C18_HandlersIsolated ==
    \A n \in 1..Len(log) :
        LET d == log[n]
        IN  /\ Len(d.results) = Len(d.hs)
            /\ \A r \in {"none", "text", "bool", "num", "exc"} :
                  Cardinality({i \in 1..Len(d.results) : d.results[i] = r})
                      = Ending(d.hs, r)
            /\ d.ev.eid # 0
               => \A i \in 1..Len(EventFrames(d.ev.eid)) :
                     LET m == EventFrames(d.ev.eid)[i]
                     IN  /\ (m.type = "event_result" /\ m.result_type = "damage")
                            => Ending(d.hs, "num") > 0
                         /\ (m.type = "event_result" /\ m.result_type = "chat")
                            => Ending(d.hs, "text") > 0

\* The first of two handlers raised, the second returned a text, and the
\* text went out as the chat override of the event.
C18_Witness ==
    \E n \in 1..Len(log) :
        /\ Len(log[n].hs) = 2
        /\ log[n].hs[1] = [async |-> FALSE, res |-> "exc"]
        /\ log[n].hs[2].res = "text"
        /\ log[n].ev.eid # 0
        /\ \E i \in 1..Len(wire) :
              /\ wire[i].type = "event_result"
              /\ wire[i].id = log[n].ev.eid
              /\ wire[i].result_type = "chat"

\* C19: for an event that carries an id and has at least one handler, no
\* event_done for the id is on the wire while the dispatch has not finished
\* (the event is still queued or its coroutine handlers are being awaited),
\* and exactly one is there once it has, whether handlers failed or not;
\* when all handlers failed the event_done is the only frame about the event.
C19_OneDone ==
    /\ \A n \in 1..Len(log) :
          LET d == log[n]
              dones == SelectSeq(EventFrames(d.ev.eid),
                                 LAMBDA m : m.type = "event_done")
          IN  (d.ev.eid # 0 /\ d.hs # <<>>)
              => /\ Len(dones) = 1
                 /\ Ending(d.hs, "exc") = Len(d.hs)
                    => Len(EventFrames(d.ev.eid)) = 1
    /\ \A n \in 1..Len(tasks) : EventFrames(tasks[n].ev.eid) = <<>>
    /\ \A n \in 1..Len(loopq) :
          loopq[n].cb = "dispatch_event" => EventFrames(loopq[n].ev.eid) = <<>>

\* An event with an id whose two handlers, a plain one and a coroutine, both
\* raised has been acknowledged.
C19_Witness ==
    \E n \in 1..Len(log) :
        /\ log[n].ev.eid # 0
        /\ log[n].hs = <<[async |-> FALSE, res |-> "exc"],
                         [async |-> TRUE, res |-> "exc"]>>
        /\ EventFrames(log[n].ev.eid)
              = <<[type |-> "event_done", id |-> log[n].ev.eid]>>

\* C20: the frames a finished dispatch has sent about an event with an id
\* are, in this order: one chat event_result if some handler ended with a
\* text, one damage event_result if the payload has a damage field and some
\* handler ended with a number that is not a bool, and then the event_done;
\* nothing else, so each kind of event_result goes out at most once and
\* before the event_done.
C20_OverridesThenDone ==
    \A n \in 1..Len(log) :
        LET d == log[n]
            chat == IF Ending(d.hs, "text") > 0
                    THEN <<[type |-> "event_result", id |-> d.ev.eid,
                            result_type |-> "chat"]>>
                    ELSE <<>>
            damage == IF d.ev.damage /\ Ending(d.hs, "num") > 0
                      THEN <<[type |-> "event_result", id |-> d.ev.eid,
                              result_type |-> "damage"]>>
                      ELSE <<>>
        IN  d.ev.eid # 0
            => EventFrames(d.ev.eid)
                  = chat \o damage \o <<[type |-> "event_done", id |-> d.ev.eid]>>

\* Two finished dispatches: a damage event whose handlers ended with a bool
\* and a number sent the damage override and then the event_done; an event
\* without a damage field whose handler ended with a number sent the
\* event_done alone.
C20_Witness ==
    \E n, k \in 1..Len(log) :
        /\ log[n].ev.eid # 0
        /\ log[n].ev.damage
        /\ Ending(log[n].hs, "bool") = 1
        /\ Ending(log[n].hs, "num") = 1
        /\ Len(EventFrames(log[n].ev.eid)) = 2
        /\ log[k].ev.eid # 0
        /\ ~log[k].ev.damage
        /\ Ending(log[k].hs, "num") > 0
        /\ Len(EventFrames(log[k].ev.eid)) = 1

\* How many entries of sequence q satisfy the test.
Count(q, Test(_)) == Cardinality({i \in 1..Len(q) : Test(q[i])})

\* C21: every shutdown frame leads to one dispatch of the synthetic shutdown
\* event to the handlers registered for it and to one shutdown_ack: there
\* are as many shutdown_ack frames on the wire as shutdown dispatches that
\* have finished, each finished dispatch collected a result from every
\* shutdown handler, failed or not, and every announcement is either
\* acknowledged or still on its way through the reader, the scheduler or
\* the handlers it awaits.
C21_AckAfterHandlers ==
    LET acks == Count(wire, LAMBDA m : m.type = "shutdown_ack")
        finished == Count(log, LAMBDA d : d.ev.type = "shutdown")
        awaited == Count(tasks, LAMBDA t : t.ev.type = "shutdown")
        queued == Count(loopq, LAMBDA c :
                           \/ c.cb = "handle_shutdown"
                           \/ c.cb = "handle_message" /\ c.msg.type = "shutdown")
        unread == Count(inbox, LAMBDA m : m.type = "shutdown")
    IN  /\ acks = finished
        /\ acks + awaited + queued + unread = events
        /\ \A n \in 1..Len(log) :
              log[n].ev.type = "shutdown"
              => /\ log[n].ev.event = "shutdown"
                 /\ Len(log[n].results) = Len(log[n].hs)
                 /\ \A i \in 1..Len(log[n].hs) :
                       \E j \in 1..Len(log[n].results) :
                           log[n].results[j] = log[n].hs[i].res

\* A shutdown whose two handlers, a plain one and a coroutine, both raised
\* has been acknowledged once, and nothing else has been written for it.
C21_Witness ==
    /\ \E n \in 1..Len(log) :
          /\ log[n].ev.type = "shutdown"
          /\ log[n].hs = <<[async |-> FALSE, res |-> "exc"],
                           [async |-> TRUE, res |-> "exc"]>>
    /\ wire = <<[type |-> "auth"], [type |-> "shutdown_ack"]>>

\* The dispatches the payloads ps of event name start when each arrives in
\* an event frame of its own: one per payload that deserializes, in order.
RECURSIVE AsSingles(_, _)
AsSingles(name, ps) ==
    IF ps = <<>> THEN <<>>
    ELSE (IF Head(ps).ok
          THEN <<[cb |-> "dispatch_event",
                  ev |-> [type |-> "event", id |-> 0, code |-> "", ok |-> TRUE,
                          event |-> name, eid |-> Head(ps).eid,
                          damage |-> Head(ps).damage]]>>
          ELSE <<>>) \o AsSingles(name, Tail(ps))

\* C23: handling an event_batch frame starts, in payload order, the
\* dispatches its payloads would start if each had arrived in an event
\* frame of its own.
C23_BatchAsSingles ==
    [][(/\ loopq # <<>>
        /\ Head(loopq).cb = "handle_message"
        /\ Head(loopq).msg.type = "event_batch"
        /\ inbox' = inbox
        /\ loopq' # loopq)
       => loopq' = Tail(loopq) \o AsSingles(Head(loopq).msg.event,
                                             Head(loopq).msg.payloads)
      ]_vars

\* C24: whatever has been written on a connection, its first frame is the
\* auth frame and no later frame is; the reader thread is not started, and
\* no call, subscribe, register_command, release or ready frame is written,
\* while the wire is empty.
C24_AuthFirst ==
    /\ wire # <<>> => wire[1].type = "auth"
    /\ \A i \in 2..Len(wire) : wire[i].type # "auth"
    /\ reader # "off" => (wire # <<>> /\ wire[1].type = "auth")

\* The bootstrap has run to its end: the wire starts with auth and also
\* holds a subscribe, a register_command, a call, a release and the ready
\* frame, and the reader has been running.
C24_Witness ==
    /\ boot = "ready"
    /\ reader = "run"
    /\ wire[1].type = "auth"
    /\ \A t \in {"subscribe", "register_command", "call", "release", "ready"} :
          \E i \in 2..Len(wire) : wire[i].type = t

\* A step of the reader thread: it takes a frame off the stream or moves on
\* in its loop or its finally block.
ReaderStep ==
    \/ reader' # reader
    \/ inbox # <<>> /\ inbox' = Tail(inbox)

\* C25: a step of the reader thread leaves the futures, the async registry,
\* the handler table and the dispatcher's tasks as they are and at most
\* appends one callback to the scheduler's queue; a frame no blocking wait
\* claims is posted as a handle_message callback, the loss of the
\* connection as a handle_reader_error callback; and a future is resolved,
\* or an id leaves the async registry, only in a step that runs the callback
\* at the head of the scheduler's queue.
C25_ReaderPostsOnly ==
    [][/\ ReaderStep =>
            /\ future' = future
            /\ pending' = pending
            /\ handlers' = handlers
            /\ tasks' = tasks
            /\ \/ loopq' = loopq
               \/ /\ Len(loopq') = Len(loopq) + 1
                  /\ SubSeq(loopq', 1, Len(loopq)) = loopq
       /\ ( /\ reader = "run"
            /\ inbox # <<>> /\ inbox' = Tail(inbox)
            /\ Head(inbox).type # "garbage"
            /\ pending_sync' = pending_sync )
          => loopq' = Append(loopq, [cb |-> "handle_message",
                                     msg |-> Head(inbox)])
       /\ (reader = "post" /\ reader' = "done")
          => loopq' = Append(loopq, [cb |-> "handle_reader_error",
                                     exc |-> "ConnectionLost"])
       /\ ( \/ \E i \in Ids : future[i].st = "pending"
                                /\ future'[i].st # "pending"
            \/ \E i \in pending : i \notin pending' )
          => /\ loopq # <<>>
             /\ loopq' = Tail(loopq)
             /\ Head(loopq).cb \in {"handle_message", "handle_reader_error"}
             /\ ~ReaderStep
      ]_vars

\* The reader has ended after the connection was lost; one async call got
\* its result and another the connection-loss error, both from callbacks,
\* and an event went through the dispatcher.
C25_Witness ==
    /\ reader = "done"
    /\ \E i \in Ids : future[i].st = "result"
    /\ \E i \in Ids : future[i].st = "error" /\ future[i].err = "ConnectionLost"
    /\ log # <<>>

\* The step is the proxy operation named op.
Did(op) == ops'.n = ops.n + 1 /\ ops'.op = op

\* The frame a step appended to the wire, given that it appended one.
Written == wire'[Len(wire')]

\* C22: cancel() on an event whose fields carry an event id appends exactly
\* one event_cancel frame with that id, allocates no request id, registers
\* nothing and returns a completed call; on an event without an event id it
\* appends exactly one call frame for setCancelled(True) under a newly
\* allocated, registered request id, and no event_cancel frame.
C22_Cancel ==
    [][Did("cancel") =>
         IF "__event_id__" \in DOMAIN proxy.fields
         THEN /\ wire' = Append(wire, [type |-> "event_cancel",
                                       id |-> proxy.fields["__event_id__"].v])
              /\ id_counter' = id_counter
              /\ alloc' = alloc
              /\ pending' = pending
              /\ pending_sync' = pending_sync
              /\ future' = future
              /\ ops'.rest.result.kind = "completed"
         ELSE /\ Len(wire') = Len(wire) + 1
              /\ SubSeq(wire', 1, Len(wire)) = wire
              /\ Written.type = "call"
              /\ Written.id = id_counter
              /\ \/ /\ Written.method = "setCancelled"
                    /\ Written.args_list = <<"True">>
                 \/ /\ Written.method = "call"
                    /\ Written.target = "ref"
                    /\ Written.args_list[3] = "setCancelled"
                    /\ Written.args_list[4] = <<"True">>
              /\ id_counter' = id_counter + 1
              /\ pending' = pending \cup {id_counter}
      ]_vars

\* An event that carries an event id has been cancelled: the event_cancel
\* frame is the last frame on the wire and no request id was used.
C22_Witness ==
    /\ ops.op = "cancel"
    /\ ops.rest.result.kind = "completed"
    /\ wire[Len(wire)] = [type |-> "event_cancel", id |-> "3"]
    /\ id_counter = 1

\* The identity of a value and of what it came back as: same kind, and the
\* same handle, (kind, id), class and fields, (type, name) or uuid.
SameIdentity(v, d) ==
    /\ d.kind = v.kind
    /\ IF v.kind = "proxy"
       THEN IF v.handle # 0 THEN d.handle = v.handle
            ELSE IF v.target = "ref" /\ v.ref_type # "None" /\ v.ref_id # NoId
            THEN /\ d.handle = 0 /\ d.target = "ref"
                 /\ d.ref_type = v.ref_type /\ d.ref_id = v.ref_id
            ELSE d.cls = v.cls /\ d.fields = v.fields
       ELSE IF v.kind = "enum" THEN d.type = v.type /\ d.name = v.name
       ELSE d.text = v.text

\* C26: whatever value was sent through _serialize and then _deserialize,
\* it came back as a value of the same kind with the same identity.
C26_RoundTrip ==
    ops.op = "roundtrip" => SameIdentity(ops.rest.v, ops.rest.dec)

\* The ref selector for a kind and an id.
Ref(type, id) == [tag |-> "__ref__", type |-> type, id |-> id]

\* C27: a constructor call writes no frame and allocates no request id, and
\* when it was given a stable key (a non-empty player name, a uuid, a
\* non-empty world name, a named world with block or chunk coordinates) and
\* no handle, the new proxy serializes as the ref selector of its kind and
\* id.
C27_RefConstruction ==
    [][Did("construct") =>
         LET a == ops'.rest
             named == {WorldStr("w"),
                       WorldProxy(WorldInit(0, NoFields, "None", "w"))}
         IN  /\ wire' = wire
             /\ id_counter' = id_counter
             /\ alloc' = alloc
             /\ pending' = pending /\ pending_sync' = pending_sync
             /\ a.handle = 0 =>
                  /\ ( /\ a.cls = "Player" /\ a.text = "None"
                       /\ a.uuid = "None" /\ a.name \notin {"None", ""} )
                     => Serialize(proxy') = Ref("player_name", <<a.name>>)
                  /\ ( /\ a.cls = "Player" /\ a.text = "None"
                       /\ a.uuid = "U-1" /\ a.name = "None" )
                     => Serialize(proxy') = Ref("entity", <<"u-1">>)
                  /\ (a.cls = "Player" /\ a.text = "Steve")
                     => Serialize(proxy') = Ref("player_name", <<"Steve">>)
                  /\ (a.cls = "Player" /\ a.text = "U-1")
                     => Serialize(proxy') = Ref("entity", <<"u-1">>)
                  /\ (a.cls = "Entity" /\ a.uuid # "None")
                     => Serialize(proxy') = Ref("entity", <<a.uuid>>)
                  /\ (a.cls = "World" /\ a.name \notin {"None", ""})
                     => Serialize(proxy') = Ref("world", <<a.name>>)
                  /\ ( /\ a.cls = "Block" /\ a.fields = NoFields
                       /\ a.world \in named /\ a.xyz # <<>> )
                     => Serialize(proxy') = Ref("block", <<"w", "1", "2", "3">>)
                  /\ ( /\ a.cls = "Chunk" /\ a.fields = NoFields
                       /\ a.world \in named /\ a.xyz # <<>> )
                     => Serialize(proxy') = Ref("chunk", <<"w", "1", "3">>)
      ]_vars

\* A block was constructed from a world name and coordinates, nothing was
\* written, and it serializes as a ref selector.
C27_Witness ==
    /\ ops.op = "construct"
    /\ ops.rest.cls = "Block"
    /\ ops.rest.world = WorldStr("w")
    /\ Serialize(proxy) = Ref("block", <<"w", "1", "2", "3">>)
    /\ wire = <<[type |-> "auth"]>>
    /\ id_counter = 1

\* C28: no proxy is both handle-bound (handle set) and reference-bound (ref
\* target with kind and id set).
C28_OneIdentity ==
    proxy # NoProxy =>
        ~( /\ proxy.handle # 0
           /\ proxy.target = "ref"
           /\ proxy.ref_type # "None"
           /\ proxy.ref_id # NoId )

\* The accessors the classes define for the names read: those that return
\* the cached field or None, and those that make a blocking call.
CacheAccessors ==
    {<<"Player", "name">>, <<"World", "name">>, <<"Block", "world">>,
     <<"Chunk", "world">>}
SyncAccessors == {<<"Entity", "world">>, <<"Player", "world">>}

\* The step changes nothing on the connection: no frame, no request id, no
\* registration, no thread entering a call.
Quiet ==
    /\ wire' = wire
    /\ id_counter' = id_counter
    /\ alloc' = alloc
    /\ pending' = pending /\ pending_sync' = pending_sync
    /\ pc' = pc

\* The step issues exactly one remote call: one new request id, registered
\* as an async call, and one call frame under that id.
OneCall ==
    /\ id_counter' = id_counter + 1
    /\ pending' = pending \cup {id_counter}
    /\ wire' = Append(wire, Written)
    /\ Written.type = "call"
    /\ Written.id = id_counter

\* C29 as stated: reading an attribute changes nothing on the connection and
\* evaluates to the cached value if the name is cached and to an invoker
\* otherwise.
C29_ReadNeverRoundTrips ==
    [][Did("read") =>
         /\ Quiet
         /\ ops'.rest.result =
              IF ops'.rest.name \in DOMAIN proxy.fields
              THEN [kind |-> "value", v |-> proxy.fields[ops'.rest.name]]
              ELSE [kind |-> "invoker", name |-> ops'.rest.name]
      ]_vars

\* C29, amended: reading a name the proxy's class does not define as a
\* property changes nothing on the connection and evaluates to the cached
\* value if the name is cached and to an invoker otherwise, and the call
\* frame and its request id appear only in the step that calls the invoker;
\* reading a cache-backed property changes nothing either and evaluates to
\* the cached value or None; reading a property whose accessor calls the
\* host allocates a request id and enters a blocking call, and Server.name
\* does so exactly when no non-empty name is cached.
C29_GetAttrNeverRoundTrips ==
    [][/\ Did("read") =>
            LET name == ops'.rest.name
                res == ops'.rest.result
                cached == name \in DOMAIN proxy.fields
                starts == /\ id_counter' = id_counter + 1
                          /\ pc'["main"] = "alloc"
                          /\ res.kind = "blocking"
            IN  IF <<proxy.cls, name>> \in SyncAccessors
                THEN starts
                ELSE IF <<proxy.cls, name>> = <<"Server", "name">>
                THEN IF cached THEN Quiet /\ res.v = proxy.fields[name]
                     ELSE starts
                ELSE IF <<proxy.cls, name>> \in CacheAccessors
                THEN /\ Quiet
                     /\ res = IF cached
                              THEN [kind |-> "value", v |-> proxy.fields[name]]
                              ELSE [kind |-> "value", v |-> Prim("None")]
                ELSE /\ Quiet
                     /\ res = IF cached
                              THEN [kind |-> "value", v |-> proxy.fields[name]]
                              ELSE [kind |-> "invoker", name |-> name]
       /\ Did("invoke") =>
            /\ ops.op = "read"
            /\ ops.rest.result.kind = "invoker"
            /\ OneCall
      ]_vars

\* A name that is neither cached nor a property was read, which gave an
\* invoker and left the connection alone, and the invoker was then called:
\* only now is there a call frame.
C29_Witness ==
    /\ ops.op = "invoke"
    /\ ops.n = 3
    /\ id_counter = 2
    /\ Len(wire) = 2
    /\ wire[2].type = "call"

C31_PoppedResolved ==
    /\ \A i \in Ids : syncwait[i].st = "pending" => i \in pending_sync
    /\ \A i \in Ids : future[i].st = "pending" => i \in pending

\* C32: whenever no batch scope is open the batch buffer is empty: every call
\* buffered inside a scope has been sent in a call_batch frame by the time
\* the outermost scope has been left, normally or by an exception.
C32_EmptyOutsideScopes ==
    batch_stack = <<>> => (batch_messages = <<>> /\ batch_futures = <<>>)

\* The handles a frame's call messages target.
Targeted(m) ==
    IF m.type = "call" THEN {m.handle}
    ELSE IF m.type = "call_batch"
    THEN {m.messages[k].handle : k \in 1..Len(m.messages)}
    ELSE {}

\* C33: a release frame naming handle h is never written before a call
\* message targeting h: no frame that follows the release on the wire carries
\* a call on h, also when the call was in the batch buffer at the moment the
\* proxy was discarded.
C33_ReleaseAfterCalls ==
    \A i \in 1..Len(wire) :
        wire[i].type = "release" =>
            \A j \in (i + 1)..Len(wire) :
                Targeted(wire[j]) \cap Range(wire[i].handles) = {}

\* The request ids a wire carries, in wire order (a call_batch frame carries
\* the ids of its messages).
RECURSIVE WireOrder(_)
WireOrder(w) ==
    IF w = <<>> THEN <<>>
    ELSE (IF Head(w).type \in {"call", "wait"} THEN <<Head(w).id>>
          ELSE IF Head(w).type = "call_batch"
          THEN [k \in 1..Len(Head(w).messages) |-> Head(w).messages[k].id]
          ELSE <<>>) \o WireOrder(Tail(w))

\* C35: the requests one thread issues reach the wire in the order they were
\* issued: the request ids on the wire increase in wire order, for every mix
\* of call and wait, also while a batch scope is open.
C35_IssueOrder ==
    \A a, b \in 1..Len(WireOrder(wire)) :
        a < b => WireOrder(wire)[a] < WireOrder(wire)[b]

\* C36: a call issued after the reader loop has terminated does not wait
\* forever.  Once the reader thread has ended and the scheduler has run what
\* it posted, no step can resolve a call any more (only the reader and the
\* callbacks it posts do), so in such a state no blocking call issued after
\* the loss is parked on an unsignaled waiter and no future created after
\* the loss is still pending.
C36_LateCallsFail ==
    (Lost /\ loopq = <<>>) =>
        /\ \A t \in Threads :
              pc[t] = "parked" => syncwait[cur[t]].st # "pending"
        /\ \A i \in Ids : future[i].st # "pending"

\* The slot a request of the given convention is registered with has been
\* created: the id has been put into its registry at some earlier moment.
Registered(a) ==
    IF a[2] = "call_sync" THEN syncwait[a[1]].st # "none"
    ELSE future[a[1]].st # "none"

\* C39: a request id is registered in the registry of its convention before
\* the frame that carries it can reach the wire: every id on the wire or in
\* the batch buffer has been registered, and so has the id of every return
\* or error frame the reader may read next.
C39_RegisteredBeforeWire ==
    \A k \in 1..Len(alloc) :
        LET id == alloc[k][1]
        IN  ( \/ id \in WireIds
              \/ id \in Range(batch_futures)
              \/ \E n \in 1..Len(inbox) : inbox[n].id = id )
            => Registered(alloc[k])

\* A call is buffered in an open scope, a blocking call is parked with its
\* frame on the wire, and an answer is waiting to be read.
C39_Witness ==
    /\ batch_messages # <<>>
    /\ \E t \in Threads : pc[t] = "parked" /\ cur[t] \in WireIds
    /\ inbox # <<>>

\* C40: a return or error frame whose id is in neither registry changes
\* nothing.  When the reader takes such a frame off the stream, and when the
\* scheduler handles a frame whose id is not in _pending, no slot is
\* resolved or altered, both registries stay as they are and the reader
\* loop keeps running.
C40_StrayFrameIgnored ==
    [][/\ (/\ reader = "run"
           /\ inbox # <<>>
           /\ inbox' = Tail(inbox)
           /\ Head(inbox).type \in {"return", "error"}
           /\ Head(inbox).id \notin pending \cup pending_sync)
          => /\ pending' = pending /\ pending_sync' = pending_sync
             /\ future' = future /\ syncwait' = syncwait
             /\ reader' = "run" /\ ended' = ended
       /\ (/\ loopq # <<>>
           /\ loopq' = Tail(loopq)
           /\ Head(loopq).cb = "handle_message"
           /\ Head(loopq).msg.type \in {"return", "error"}
           /\ Head(loopq).msg.id \notin pending)
          => /\ pending' = pending /\ pending_sync' = pending_sync
             /\ future' = future /\ syncwait' = syncwait
             /\ reader' = reader /\ ended' = ended
      ]_vars

\* The reader has passed on a second frame for a call that was answered and
\* resolved before, while another call is still outstanding.
C40_Witness ==
    /\ loopq # <<>>
    /\ Head(loopq).cb = "handle_message"
    /\ Head(loopq).msg.id \in answered
    /\ Head(loopq).msg.id \notin pending
    /\ future[Head(loopq).msg.id].st = "result"
    /\ Head(loopq).msg.type = "error"
    /\ pending_sync # {}
    /\ reader = "run"

\* C34: batch scopes of different coroutines do not interfere: a call issued
\* by a coroutine that has no scope open is sent at once as a frame of its
\* own and is never part of a batch, and the scope a coroutine leaves is one
\* it entered itself.
C34_ScopesIsolated ==
    /\ \A id \in co.free :
          /\ \E k \in 1..Len(wire) : wire[k].type = "call" /\ wire[k].id = id
          /\ id \notin Range(batch_futures)
          /\ id \notin Range(BatchedIds(wire))
    /\ \A k \in 1..Len(co.left) : co.left[k].owner = co.left[k].by

\* C37: queueing a handle release never blocks forever, also when the
\* finalizer runs on a thread that is inside send or inside a release flush.
\* A thread that waits for a lock it holds itself can never go on (the locks
\* are not reentrant and only the holder's own later statements release
\* them), so no thread is ever at the entry of "with self._release_lock"
\* while it holds _release_lock, nor at the entry of "with self._lock" while
\* it holds _lock.
C37_QueueReleaseCompletes ==
    \A t \in Threads :
        frames[t] # <<>> =>
            /\ ~( /\ Top(t).fn \in {"queue_release", "flush_releases"}
                  /\ Top(t).pc = "acquire"
                  /\ release_lock = t )
            /\ ~( /\ Top(t).fn = "send"
                  /\ Top(t).pc = "acquire"
                  /\ lock = t )

\* The handles of the release frames on a wire, in wire order.
RECURSIVE WireHandles(_)
WireHandles(w) ==
    IF w = <<>> THEN <<>>
    ELSE (IF Head(w).type = "release" THEN Head(w).handles ELSE <<>>)
         \o WireHandles(Tail(w))

\* The handles the activations of one thread have taken out of the queue and
\* not yet written.
RECURSIVE HeldIn(_)
HeldIn(fs) ==
    IF fs = <<>> THEN <<>>
    ELSE (IF \/ (Head(fs).fn # "send" /\ Head(fs).pc = "send")
             \/ (Head(fs).fn = "send" /\ Head(fs).pc \in {"acquire", "write"})
          THEN Head(fs).handles ELSE <<>>) \o HeldIn(Tail(fs))

\* C38: under any interleaving of threads that queue releases and threads
\* that flush, the handles written in release frames, followed by the
\* handles a flushing thread has taken and is about to write, followed by
\* the queue, are exactly the handles queued so far, in queueing order: each
\* queued handle is in one release frame at most, none is dropped, and the
\* ids of a frame keep their queueing order.
C38_EachHandleOnce ==
    WireHandles(wire) \o HeldIn(frames["main"]) \o HeldIn(frames["worker"])
        \o release_queue = appended

\* A release frame with two handles is on the wire, and a third handle's
\* finalizer waits for the release lock while the other thread, which holds
\* it, is flushing.
C38_Witness ==
    /\ \E k \in 1..Len(wire) :
          wire[k].type = "release" /\ Len(wire[k].handles) = 2
    /\ \E t, u \in Threads :
          /\ t # u
          /\ release_lock = t
          /\ frames[t] # <<>> /\ Top(t).fn = "flush_releases"
          /\ frames[u] # <<>> /\ Top(u).fn = "queue_release"
          /\ Top(u).pc = "acquire"

====
